---- MODULE Spec2Model ----
(***************************************************************************)
(* Model of the configuration API router (src/routes/config.js): the       *)
(* startup configuration cache, the fixed-window rate limiter, API-key     *)
(* validation, the config routes and the admin feature-flag route; and of  *)
(* the iOS client of the API (ConfigurationService in src/unnamed/part_000)*)
(* with its published properties, its UserDefaults cache and its calls in  *)
(* flight.                                                                 *)
(*                                                                         *)
(* JavaScript values are modelled as follows.  Strings are TLA+ strings;   *)
(* the value undefined is the reserved string Undefined, which no header,  *)
(* key or environment value of the model equals.  A feature-flag value is  *)
(* its JSON literal ("true", "false", ...).  Objects that the code shares  *)
(* by reference (configuration documents) live in a heap, docs, and are    *)
(* named by their index in it; 0 names no object.                          *)
(***************************************************************************)
EXTENDS Integers, Sequences, FiniteSets, TLC

VARIABLES
  env,             \* process.env: variable name -> string
  docs,            \* heap of configuration documents (instances)
  configCache,     \* configCache: cache key -> index in docs
  rateLimitStore,  \* rateLimitStore: clientId -> [count, resetTime]
  now,             \* Date.now(), in milliseconds
  req,             \* the request handled last (with req.validatedApiKey)
  resp,            \* the response sent for it
  allowed,         \* history: clientId -> requests the limiter let through
                   \*   since the client's current window began
  phase,           \* history: clientId -> how its current window came about
  posted,          \* history: flag -> value of the last accepted update of it
  admitted,        \* history, kept for the clients in its domain: clientId ->
                   \*   (<<start of the window, time, IP, app id>> -> requests
                   \*   let through)
  currentConfig,   \* client: service -> <<>> (nil) or <<the AppConfig held>>
  isLoading,       \* client: service -> BOOLEAN
  lastUpdateTime,  \* client: service -> a date in seconds, NoDate for nil
  configError,     \* client: service.error -> ConfigError, NoError for nil
  userDefaults,    \* client: UserDefaults.standard, shared by the services
  inFlight,        \* client: service -> calls suspended at urlSession.data
  date,            \* client: Date(), in seconds
  event            \* client: the call that last ran, and what it returned

serverVars == <<env, docs, configCache, rateLimitStore, now, req, resp,
                allowed, phase, posted, admitted>>

clientVars == <<currentConfig, isLoading, lastUpdateTime, configError, userDefaults,
                inFlight, date, event>>

vars == <<env, docs, configCache, rateLimitStore, now, req, resp,
          allowed, phase, posted, admitted, currentConfig, isLoading, lastUpdateTime,
          configError, userDefaults, inFlight, date, event>>

-----------------------------------------------------------------------------
(* JavaScript values *)

Undefined == "<undefined>"

\* JavaScript truthiness of a string-or-undefined value
Truthy(v) == v # Undefined /\ v # ""

\* a || b on string-or-undefined values
OrElse(a, b) == IF Truthy(a) THEN a ELSE b

\* process.env[name]
ProcessEnv(e, name) == IF name \in DOMAIN e THEN e[name] ELSE Undefined

\* the JSON literal of a boolean
JsBool(b) == IF b THEN "true" ELSE "false"

\* String.prototype.toUpperCase on the environment names of the model
ToUpperCase(s) ==
  IF s = "test" THEN "TEST" ELSE IF s = "production" THEN "PRODUCTION" ELSE s

\* Object.assign(target, source) on flag maps: every own key of source is set
\* on target, every other key of target is kept
ObjectAssignTargetWins(target, source) ==
  [k \in DOMAIN target \cup DOMAIN source |->
     IF k \in DOMAIN target THEN target[k] ELSE source[k]]

ObjectAssignReplace(target, source) == source

ObjectAssign(target, source) ==
  [k \in DOMAIN target \cup DOMAIN source |->
     IF k \in DOMAIN source THEN source[k] ELSE target[k]]

-----------------------------------------------------------------------------
(* Configuration documents and their sources *)

\* a flag map from a set of (name, value) pairs
Flags(pairs) == [k \in {p[1] : p \in pairs} |-> (CHOOSE p \in pairs : p[1] = k)[2]]

NoFlags == Flags({})

Document(pool, client, ws, bot, model, hasFeatures, flags, version) ==
  [aws |-> [cognito |-> [userPoolId |-> pool, appClientId |-> client]],
   api |-> [websocketEndpoint |-> ws],
   bot |-> [botId |-> bot, foundationModel |-> model],
   hasFeatures |-> hasFeatures,
   features |-> flags,
   version |-> version]

\* The JSON texts the structured inputs of the model hold
JsonDefault ==
  "{\"aws\":{\"cognito\":{\"userPoolId\":\"p1\",\"appClientId\":\"c1\"}},\"api\":{\"websocketEndpoint\":\"wss://a\"},\"bot\":{\"botId\":\"b1\",\"foundationModel\":\"m1\"},\"features\":{\"darkMode\":false,\"analytics\":true,\"newCheckout\":false},\"version\":\"1.2.0\"}"

JsonTest ==
  "{\"aws\":{\"cognito\":{\"userPoolId\":\"pT\",\"appClientId\":\"cT\"}},\"api\":{\"websocketEndpoint\":\"wss://t\"},\"bot\":{\"botId\":\"bT\",\"foundationModel\":\"m1\"},\"features\":{\"darkMode\":true},\"version\":\"1.2.0-test\"}"

JsonV2 ==
  "{\"aws\":{\"cognito\":{\"userPoolId\":\"p2\",\"appClientId\":\"c2\"}},\"api\":{\"websocketEndpoint\":\"wss://v2\"},\"bot\":{\"botId\":\"b2\",\"foundationModel\":\"m2\"},\"features\":{\"darkMode\":true,\"analytics\":false},\"version\":\"2.0.0\"}"

JsonNoFeatures ==
  "{\"aws\":{\"cognito\":{\"userPoolId\":\"p1\",\"appClientId\":\"c1\"}},\"api\":{\"websocketEndpoint\":\"wss://a\"},\"bot\":{\"botId\":\"b1\",\"foundationModel\":\"m1\"},\"version\":\"1.1.0\"}"

JsonBroken == "{\"version\": \"1.2.0\", "

\* JSON.parse on these texts: the document a text denotes, by text
ParsedDocuments ==
  (JsonDefault :> Document("p1", "c1", "wss://a", "b1", "m1", TRUE,
                   Flags({<<"darkMode", "false">>, <<"analytics", "true">>,
                          <<"newCheckout", "false">>}), "1.2.0"))
  @@ (JsonTest :> Document("pT", "cT", "wss://t", "bT", "m1", TRUE,
                   Flags({<<"darkMode", "true">>}), "1.2.0-test"))
  @@ (JsonV2 :> Document("p2", "c2", "wss://v2", "b2", "m2", TRUE,
                   Flags({<<"darkMode", "true">>, <<"analytics", "false">>}), "2.0.0"))
  @@ (JsonNoFeatures :> Document("p1", "c1", "wss://a", "b1", "m1", FALSE,
                   NoFlags, "1.1.0"))

\* JSON.parse throws on a text that is not JSON
JsonParseThrows(text) == text \notin DOMAIN ParsedDocuments

JsonParse(text) == ParsedDocuments[text]

\* getLegacyConfig(): the document assembled from the individual variables
getLegacyConfig(e) ==
  Document(ProcessEnv(e, "USER_POOL_ID"), ProcessEnv(e, "APP_CLIENT_ID"),
           ProcessEnv(e, "WEBSOCKET_ENDPOINT"), ProcessEnv(e, "BOT_ID"),
           OrElse(ProcessEnv(e, "FOUNDATION_MODEL"), "claude-v3.7-sonnet"),
           TRUE,
           Flags({<<"darkMode", JsBool(ProcessEnv(e, "FEATURE_DARK_MODE") = "true" \/ FALSE)>>,
                  <<"analytics", JsBool(ProcessEnv(e, "FEATURE_ANALYTICS") = "true" \/ TRUE)>>,
                  <<"newCheckout", JsBool(ProcessEnv(e, "FEATURE_NEW_CHECKOUT") = "true" \/ FALSE)>>}),
           OrElse(ProcessEnv(e, "CONFIG_VERSION"), "1.0.0"))

-----------------------------------------------------------------------------
(* The configuration cache, filled at startup *)

\* Map.prototype.get on the cache: 0 stands for undefined
CacheGet(cache, key) == IF key \in DOMAIN cache THEN cache[key] ELSE 0

\* a new object on the heap: <<its index, the heap with it>>
Alloc(heap, doc) == <<Len(heap) + 1, Append(heap, doc)>>

\* the name of the structured input of (version, environment)
EnvVarName(version, environment) ==
  "APP_CONFIG"
    \o (IF version # "" THEN "_" \o version ELSE "")
    \o (IF environment # "" THEN "_" \o ToUpperCase(environment) ELSE "")

\* getAppConfig(version, environment) run against the heap and the cache as
\* they are at the call: <<index of the returned document, heap after>>
getAppConfigNoCatch(e, heap, cache, version, environment) ==
  LET text == ProcessEnv(e, EnvVarName(version, environment))
      default == CacheGet(cache, "")
      ofVersion == CacheGet(cache, version)
  IN  IF Truthy(text)
        THEN IF JsonParseThrows(text) THEN <<0, heap>> ELSE Alloc(heap, JsonParse(text))
      ELSE IF environment # "" /\ version = ""
        THEN IF default # 0 THEN <<default, heap>> ELSE Alloc(heap, getLegacyConfig(e))
      ELSE IF environment # "" /\ version # ""
        THEN IF ofVersion # 0 THEN <<ofVersion, heap>>
             ELSE IF default # 0 THEN <<default, heap>>
             ELSE Alloc(heap, getLegacyConfig(e))
      ELSE IF version # "" /\ environment = ""
        THEN IF default # 0 THEN <<default, heap>> ELSE Alloc(heap, getLegacyConfig(e))
      ELSE Alloc(heap, getLegacyConfig(e))

getAppConfigDefaultFirst(e, heap, cache, version, environment) ==
  LET text == ProcessEnv(e, EnvVarName(version, environment))
      default == CacheGet(cache, "")
      ofVersion == CacheGet(cache, version)
  IN  IF Truthy(text) /\ ~JsonParseThrows(text)
        THEN Alloc(heap, JsonParse(text))
      ELSE IF environment # "" /\ version = ""
        THEN IF default # 0 THEN <<default, heap>> ELSE Alloc(heap, getLegacyConfig(e))
      ELSE IF environment # "" /\ version # ""
        THEN IF default # 0 THEN <<default, heap>>
             ELSE IF ofVersion # 0 THEN <<ofVersion, heap>>
             ELSE Alloc(heap, getLegacyConfig(e))
      ELSE IF version # "" /\ environment = ""
        THEN IF default # 0 THEN <<default, heap>> ELSE Alloc(heap, getLegacyConfig(e))
      ELSE Alloc(heap, getLegacyConfig(e))

getAppConfig(e, heap, cache, version, environment) ==
  LET text == ProcessEnv(e, EnvVarName(version, environment))
      default == CacheGet(cache, "")
      ofVersion == CacheGet(cache, version)
  IN  IF Truthy(text) /\ ~JsonParseThrows(text)
        THEN Alloc(heap, JsonParse(text))
      ELSE IF environment # "" /\ version = ""
        THEN IF default # 0 THEN <<default, heap>> ELSE Alloc(heap, getLegacyConfig(e))
      ELSE IF environment # "" /\ version # ""
        THEN IF ofVersion # 0 THEN <<ofVersion, heap>>
             ELSE IF default # 0 THEN <<default, heap>>
             ELSE Alloc(heap, getLegacyConfig(e))
      ELSE IF version # "" /\ environment = ""
        THEN IF default # 0 THEN <<default, heap>> ELSE Alloc(heap, getLegacyConfig(e))
      ELSE Alloc(heap, getLegacyConfig(e))

\* the versions cached at startup, in the order of the forEach
DeclaredVersions == <<"", "2", "3", "4", "5">>

\* one iteration of the startup forEach, on st = [heap, cache]
CacheVersionSharedTest(e, st, version) ==
  LET plain == getAppConfig(e, st.heap, st.cache, version, "")
      cache1 == (version :> plain[1]) @@ st.cache
  IN  [heap |-> plain[2], cache |-> ((version \o "_test") :> plain[1]) @@ cache1]

CacheVersion(e, st, version) ==
  LET plain == getAppConfig(e, st.heap, st.cache, version, "")
      cache1 == (version :> plain[1]) @@ st.cache
      test == getAppConfig(e, plain[2], cache1, version, "test")
  IN  [heap |-> test[2], cache |-> ((version \o "_test") :> test[1]) @@ cache1]

RECURSIVE CacheVersions(_, _, _)
CacheVersions(e, st, i) ==
  IF i > Len(DeclaredVersions) THEN st
  ELSE CacheVersions(e, CacheVersion(e, st, DeclaredVersions[i]), i + 1)

\* the heap and the cache once the module is loaded
Startup(e) == CacheVersions(e, [heap |-> <<>>, cache |-> <<>>], 1)

\* const APP_CONFIG = configCache.get(''), APP_CONFIG_TEST = configCache.get('_test')
APP_CONFIG == CacheGet(configCache, "")
APP_CONFIG_TEST == CacheGet(configCache, "_test")

\* const VALID_API_KEYS
VALID_API_KEYS ==
  <<ProcessEnv(env, "API_KEY_IOS"), ProcessEnv(env, "API_KEY_ANDROID"),
    ProcessEnv(env, "API_KEY_WEB")>>

-----------------------------------------------------------------------------
(* Requests *)

\* the strings the route parameter :version is matched against
VersionParams == {"2", "3", "4", "5", "9", "_test", "2_test"}

\* the strings a candidate key is made of
KeyStrings == {"", "ios-key", "android-key", "web-key", "wrong-key", "admin-secret"}

Request(method, path, ip, xApiKey, authorization, queryApiKey, xAppId, xAppVersion, xPlatform, xAdminKey, bodyKind, bodyFeatures) ==
  [method |-> method, path |-> path, ip |-> ip,
   xApiKey |-> xApiKey, authorization |-> authorization,
   queryApiKey |-> queryApiKey,
   xAppId |-> xAppId, xAppVersion |-> xAppVersion, xPlatform |-> xPlatform,
   xAdminKey |-> xAdminKey,
   bodyKind |-> bodyKind, bodyFeatures |-> bodyFeatures,
   validatedApiKey |-> Undefined]

\* the request of a fresh process, before any was handled
NoRequest ==
  Request("", <<>>, "", Undefined, Undefined, Undefined, Undefined, Undefined,
          Undefined, Undefined, "none", NoFlags)

\* a response: who sent it (a middleware, a route handler, or the framework for
\* a request no route of the router took or an error no handler caught), the
\* status, and the JSON body (keys: the names of its top-level members)
Response(by, status, keys, error, message, retryAfter, config, metadata, version, checksum, features) ==
  [by |-> by, status |-> status, keys |-> keys, error |-> error,
   message |-> message, retryAfter |-> retryAfter, config |-> config,
   metadata |-> metadata, version |-> version, checksum |-> checksum,
   features |-> features]

NoMetadata == [environment |-> Undefined, apiVersion |-> Undefined]

ErrorResponse(by, status, keys, error, message, retryAfter) ==
  Response(by, status, keys, error, message, retryAfter, <<>>, NoMetadata,
           Undefined, <<>>, NoFlags)

NoResponse == ErrorResponse("", 0, {}, "", "", -1)

-----------------------------------------------------------------------------
(* Rate limiting middleware *)

RATE_LIMIT_WINDOW == 60 * 1000
RATE_LIMIT_MAX_REQUESTS == 100

\* Math.ceil(x / d) for d > 0
CeilDiv(x, d) == IF x >= 0 THEN (x + d - 1) \div d ELSE -((-x) \div d)

\* const clientId = req.ip + (req.headers['x-app-id'] || 'unknown')
ClientId(r) == r.ip \o OrElse(r.xAppId, "unknown")

RateLimitBody(store, r, t) ==
  ErrorResponse("rateLimit", 429, {"error", "message", "retryAfter"},
                "Too Many Requests",
                "Rate limit exceeded. Please try again later.",
                CeilDiv(store[ClientId(r)].resetTime - t, 1000))

\* rateLimit(req, res, next) at time t: [next: whether next() was called,
\* store: the store after, resp: the response sent when it was not]
rateLimitOffByOne(store, r, t) ==
  LET clientId == ClientId(r) IN
  IF clientId \notin DOMAIN store
    THEN [next |-> TRUE, resp |-> NoResponse,
          store |-> (clientId :> [count |-> 1, resetTime |-> t + RATE_LIMIT_WINDOW]) @@ store]
  ELSE IF t > store[clientId].resetTime
    THEN [next |-> TRUE, resp |-> NoResponse,
          store |-> [store EXCEPT ![clientId] =
                       [count |-> 1, resetTime |-> t + RATE_LIMIT_WINDOW]]]
  ELSE IF store[clientId].count > RATE_LIMIT_MAX_REQUESTS
    THEN [next |-> FALSE, store |-> store, resp |-> RateLimitBody(store, r, t)]
  ELSE [next |-> TRUE, resp |-> NoResponse,
        store |-> [store EXCEPT ![clientId].count = @ + 1]]

rateLimitNoReset(store, r, t) ==
  LET clientId == ClientId(r) IN
  IF clientId \notin DOMAIN store
    THEN [next |-> TRUE, resp |-> NoResponse,
          store |-> (clientId :> [count |-> 1, resetTime |-> t + RATE_LIMIT_WINDOW]) @@ store]
  ELSE IF store[clientId].count >= RATE_LIMIT_MAX_REQUESTS
    THEN [next |-> FALSE, store |-> store, resp |-> RateLimitBody(store, r, t)]
  ELSE [next |-> TRUE, resp |-> NoResponse,
        store |-> [store EXCEPT ![clientId].count = @ + 1]]

rateLimitSliding(store, r, t) ==
  LET clientId == ClientId(r) IN
  IF clientId \notin DOMAIN store
    THEN [next |-> TRUE, resp |-> NoResponse,
          store |-> (clientId :> [count |-> 1, resetTime |-> t + RATE_LIMIT_WINDOW]) @@ store]
  ELSE IF t > store[clientId].resetTime
    THEN [next |-> TRUE, resp |-> NoResponse,
          store |-> [store EXCEPT ![clientId] =
                       [count |-> 1, resetTime |-> t + RATE_LIMIT_WINDOW]]]
  ELSE IF store[clientId].count >= RATE_LIMIT_MAX_REQUESTS
    THEN [next |-> FALSE, resp |-> RateLimitBody(store, r, t),
          store |-> [store EXCEPT ![clientId].resetTime = t + RATE_LIMIT_WINDOW]]
  ELSE [next |-> TRUE, resp |-> NoResponse,
        store |-> [store EXCEPT ![clientId].count = @ + 1]]

rateLimit(store, r, t) ==
  LET clientId == ClientId(r) IN
  IF clientId \notin DOMAIN store
    THEN [next |-> TRUE, resp |-> NoResponse,
          store |-> (clientId :> [count |-> 1, resetTime |-> t + RATE_LIMIT_WINDOW]) @@ store]
  ELSE IF t > store[clientId].resetTime
    THEN [next |-> TRUE, resp |-> NoResponse,
          store |-> [store EXCEPT ![clientId] =
                       [count |-> 1, resetTime |-> t + RATE_LIMIT_WINDOW]]]
  ELSE IF store[clientId].count >= RATE_LIMIT_MAX_REQUESTS
    THEN [next |-> FALSE, store |-> store, resp |-> RateLimitBody(store, r, t)]
  ELSE [next |-> TRUE, resp |-> NoResponse,
        store |-> [store EXCEPT ![clientId].count = @ + 1]]

-----------------------------------------------------------------------------
(* API key validation middleware *)

\* req.headers['authorization']?.replace('Bearer ', ''), on the authorization
\* values of the model: "Bearer " followed by a key string, or a bare string
StripBearer(a) ==
  IF a = Undefined THEN Undefined
  ELSE IF \E k \in KeyStrings : a = "Bearer " \o k
    THEN CHOOSE k \in KeyStrings : a = "Bearer " \o k
  ELSE a

\* const apiKey = x-api-key || authorization?.replace(...) || req.query.apiKey
CandidateKeyQueryFirst(r) ==
  IF Truthy(r.queryApiKey) THEN r.queryApiKey
  ELSE IF Truthy(StripBearer(r.authorization)) THEN StripBearer(r.authorization)
  ELSE r.xApiKey

CandidateKey(r) ==
  IF Truthy(r.xApiKey) THEN r.xApiKey
  ELSE IF Truthy(StripBearer(r.authorization)) THEN StripBearer(r.authorization)
  ELSE r.queryApiKey

\* Array.prototype.includes
Includes(seq, v) == \E i \in 1..Len(seq) : seq[i] = v

UnauthorizedResponse(message) ==
  ErrorResponse("validateApiKey", 401, {"error", "message"}, "Unauthorized", message, -1)

\* validateApiKey(req, res, next): [next, key: req.validatedApiKey after, resp]
validateApiKeyAnyKey(keys, r) ==
  LET apiKey == CandidateKey(r) IN
  IF ~Truthy(apiKey)
    THEN [next |-> FALSE, key |-> Undefined,
          resp |-> UnauthorizedResponse("API key is required. Provide it in X-API-Key header, Authorization header, or apiKey query parameter.")]
  ELSE [next |-> TRUE, key |-> apiKey, resp |-> NoResponse]

validateApiKeyForbidden(keys, r) ==
  LET apiKey == CandidateKey(r) IN
  IF ~Truthy(apiKey)
    THEN [next |-> FALSE, key |-> Undefined,
          resp |-> UnauthorizedResponse("API key is required. Provide it in X-API-Key header, Authorization header, or apiKey query parameter.")]
  ELSE IF ~Includes(keys, apiKey)
    THEN [next |-> FALSE, key |-> Undefined,
          resp |-> ErrorResponse("validateApiKey", 403, {"error", "message"},
                                 "Forbidden", "Invalid API key provided.", -1)]
  ELSE [next |-> TRUE, key |-> apiKey, resp |-> NoResponse]

validateApiKey(keys, r) ==
  LET apiKey == CandidateKey(r) IN
  IF ~Truthy(apiKey)
    THEN [next |-> FALSE, key |-> Undefined,
          resp |-> UnauthorizedResponse("API key is required. Provide it in X-API-Key header, Authorization header, or apiKey query parameter.")]
  ELSE IF ~Includes(keys, apiKey)
    THEN [next |-> FALSE, key |-> Undefined,
          resp |-> UnauthorizedResponse("Invalid API key provided.")]
  ELSE [next |-> TRUE, key |-> apiKey, resp |-> NoResponse]

\* validateRequest(req, res, next): the warnings it logs; it always calls
\* next().  It reads x-platform too and does nothing with it.
validateRequestStrict(r) ==
  [next |-> Truthy(r.xAppId) /\ Truthy(r.xAppVersion) /\ Truthy(r.xPlatform),
   warnings |-> {}]

validateRequest(r) ==
  [next |-> TRUE,
   warnings |-> (IF ~Truthy(r.xAppId) THEN {"Missing X-App-Id header"} ELSE {})
                \cup (IF ~Truthy(r.xAppVersion) THEN {"Missing X-App-Version header"} ELSE {})]

-----------------------------------------------------------------------------
(* The router: routes in the order they are registered *)

\* the values :version takes for a path segment matched by /v:version
VersionMatches(segment) == {v \in VersionParams : segment = "v" \o v}

VersionOf(segment) == CHOOSE v \in VersionParams : segment = "v" \o v

\* the first registered route that matches the request, "none" when none does
Route(r) ==
  IF r.method = "GET" /\ Len(r.path) = 3 /\ VersionMatches(r.path[1]) # {}
     /\ r.path[2] = "config"
    THEN "GET /v:version/config/:environment"
  ELSE IF r.method = "GET" /\ Len(r.path) = 2 /\ VersionMatches(r.path[1]) # {}
          /\ r.path[2] = "config"
    THEN "GET /v:version/config"
  ELSE IF r.method = "GET" /\ Len(r.path) = 2 /\ r.path[1] = "config"
    THEN "GET /config/:environment"
  ELSE IF r.method = "GET" /\ r.path = <<"config">>
    THEN "GET /config"
  ELSE IF r.method = "GET" /\ r.path = <<"config", "version">>
    THEN "GET /config/version"
  ELSE IF r.method = "POST" /\ r.path = <<"config", "features">>
    THEN "POST /config/features"
  ELSE "none"

\* the middlewares registered on a route, in order
MiddlewaresKeyFirst(route) ==
  IF route = "none" THEN <<>>
  ELSE IF route = "POST /config/features" THEN <<"validateApiKey">>
  ELSE IF route = "GET /config/version" THEN <<"validateApiKey", "rateLimit">>
  ELSE <<"validateApiKey", "rateLimit", "validateRequest">>

MiddlewaresLimitAll(route) ==
  IF route = "none" THEN <<>>
  ELSE IF route = "POST /config/features" THEN <<"rateLimit", "validateApiKey">>
  ELSE IF route = "GET /config/version" THEN <<"rateLimit", "validateApiKey">>
  ELSE <<"rateLimit", "validateApiKey", "validateRequest">>

Middlewares(route) ==
  IF route = "none" THEN <<>>
  ELSE IF route = "POST /config/features" THEN <<"validateApiKey">>
  ELSE IF route = "GET /config/version" THEN <<"rateLimit", "validateApiKey">>
  ELSE <<"rateLimit", "validateApiKey", "validateRequest">>

\* the middlewares of a route run in order from the i-th on g = [next, store,
\* key, resp]; a middleware that does not call next() ends the chain
RECURSIVE RunMiddlewares(_, _, _, _, _, _)
RunMiddlewares(mws, i, g, keys, r, t) ==
  IF i > Len(mws) \/ ~g.next THEN g
  ELSE IF mws[i] = "rateLimit"
    THEN LET out == rateLimit(g.store, r, t)
         IN  RunMiddlewares(mws, i + 1,
               [g EXCEPT !.next = out.next, !.store = out.store, !.resp = out.resp],
               keys, r, t)
  ELSE IF mws[i] = "validateApiKey"
    THEN LET out == validateApiKey(keys, r)
         IN  RunMiddlewares(mws, i + 1,
               [g EXCEPT !.next = out.next, !.key = out.key, !.resp = out.resp],
               keys, r, t)
  ELSE RunMiddlewares(mws, i + 1, [g EXCEPT !.next = validateRequest(r).next],
                      keys, r, t)

-----------------------------------------------------------------------------
(* Route handlers *)

\* the top-level members of a serialized document
DocumentKeys(doc) ==
  {"aws", "api", "bot", "version"} \cup (IF doc.hasFeatures THEN {"features"} ELSE {})

\* Buffer.from(JSON.stringify(doc)).toString('base64').substring(0, 16): the
\* base64 text of the first 12 bytes of the serialization, which for every
\* document of the model are {"aws":{"cog
Checksum(doc) == "eyJhd3MiOnsiY29n"

InternalServerError(by) ==
  ErrorResponse(by, 500, {"error", "message", "timestamp"}, "Internal Server Error",
                "Unable to retrieve configuration", -1)

\* the body of the four document routes: config is the index of the document
\* (0 when the lookup gave undefined, and Buffer.from(undefined) throws inside
\* the try block)
ServeConfig(by, heap, config, environment, apiVersion) ==
  IF config = 0 THEN InternalServerError(by)
  ELSE Response(by, 200, DocumentKeys(heap[config]) \cup {"metadata"}, Undefined,
                Undefined, -1, <<heap[config]>>,
                [environment |-> environment, apiVersion |-> apiVersion],
                Undefined, <<>>, NoFlags)

\* an error no handler catches, answered by the application's error handler
\* (the message, err.message or a fixed text, is left out)
UncaughtError ==
  ErrorResponse("errorHandler", 500, {"error", "message", "timestamp"},
                "Internal Server Error", "", -1)

\* a request no route of the router takes, answered by the application
NotFound ==
  ErrorResponse("notFound", 404, {"error", "message", "timestamp"}, "Not Found", "", -1)

\* router.post('/config/features') once the admin key matched:
\* [heap: the documents after, resp]
UpdateFeaturesEveryDocument(e, heap, cache, r) ==
  IF r.bodyKind # "object"
    THEN [heap |-> heap,
          resp |-> ErrorResponse("POST /config/features", 400, {"error", "message"},
                                 "Bad Request", "Features object is required", -1)]
  ELSE IF ~heap[CacheGet(cache, "")].hasFeatures
    THEN [heap |-> heap, resp |-> UncaughtError]
  ELSE LET merged == ObjectAssign(heap[CacheGet(cache, "")].features, r.bodyFeatures)
       IN  [heap |-> [i \in 1..Len(heap) |->
                        IF heap[i].hasFeatures
                          THEN [heap[i] EXCEPT !.features = ObjectAssign(@, r.bodyFeatures)]
                        ELSE heap[i]],
            resp |-> Response("POST /config/features", 200,
                              {"message", "features", "timestamp"}, Undefined,
                              "Feature flags updated successfully", -1, <<>>,
                              NoMetadata, Undefined, <<>>, merged)]

UpdateFeatures(e, heap, cache, r) ==
  IF r.bodyKind # "object"
    THEN [heap |-> heap,
          resp |-> ErrorResponse("POST /config/features", 400, {"error", "message"},
                                 "Bad Request", "Features object is required", -1)]
  ELSE IF ~heap[CacheGet(cache, "")].hasFeatures
    THEN [heap |-> heap, resp |-> UncaughtError]
  ELSE LET merged == ObjectAssign(heap[CacheGet(cache, "")].features, r.bodyFeatures)
       IN  [heap |-> [heap EXCEPT ![CacheGet(cache, "")].features = merged],
            resp |-> Response("POST /config/features", 200,
                              {"message", "features", "timestamp"}, Undefined,
                              "Feature flags updated successfully", -1, <<>>,
                              NoMetadata, Undefined, <<>>, merged)]

\* router.post('/config/features') after validateApiKey
PostFeatures(e, heap, cache, r) ==
  IF r.xAdminKey # ProcessEnv(e, "ADMIN_API_KEY")
    THEN [heap |-> heap,
          resp |-> ErrorResponse("POST /config/features", 403, {"error", "message"},
                                 "Forbidden", "Admin access required", -1)]
  ELSE UpdateFeatures(e, heap, cache, r)

\* the handler of a route, run once every middleware called next()
RunHandler(route, e, heap, cache, r) ==
  IF route = "GET /v:version/config/:environment"
    THEN [heap |-> heap,
          resp |-> ServeConfig(route, heap,
                     CacheGet(cache, IF r.path[3] = "test"
                                       THEN VersionOf(r.path[1]) \o "_test"
                                       ELSE VersionOf(r.path[1])),
                     r.path[3], VersionOf(r.path[1]))]
  ELSE IF route = "GET /v:version/config"
    THEN [heap |-> heap,
          resp |-> ServeConfig(route, heap, CacheGet(cache, VersionOf(r.path[1])),
                     OrElse(ProcessEnv(e, "NODE_ENV"), "development"),
                     VersionOf(r.path[1]))]
  ELSE IF route = "GET /config/:environment"
    THEN [heap |-> heap,
          resp |-> ServeConfig(route, heap,
                     IF r.path[2] = "test" THEN CacheGet(cache, "_test")
                                           ELSE CacheGet(cache, ""),
                     r.path[2], Undefined)]
  ELSE IF route = "GET /config"
    THEN [heap |-> heap,
          resp |-> ServeConfig(route, heap, CacheGet(cache, ""),
                     OrElse(ProcessEnv(e, "NODE_ENV"), "development"), Undefined)]
  ELSE IF route = "GET /config/version"
    THEN [heap |-> heap,
          resp |-> Response(route, 200, {"version", "timestamp", "checksum"},
                     Undefined, Undefined, -1, <<>>, NoMetadata,
                     heap[CacheGet(cache, "")].version,
                     <<Checksum(heap[CacheGet(cache, "")])>>, NoFlags)]
  ELSE IF route = "POST /config/features"
    THEN PostFeatures(e, heap, cache, r)
  ELSE [heap |-> heap, resp |-> NotFound]

\* History of the limiter, kept beside the program's state.  A client's
\* window begins with the request that creates its entry or finds it elapsed.
WindowBegins(store, r, t) ==
  IF ClientId(r) \notin DOMAIN store THEN TRUE ELSE t > store[ClientId(r)].resetTime

IsLimited(route) == \E i \in 1..Len(Middlewares(route)) : Middlewares(route)[i] = "rateLimit"

AllowedAfter(route, r, rejected) ==
  IF ~IsLimited(route) \/ rejected THEN allowed
  ELSE IF WindowBegins(rateLimitStore, r, now) THEN (ClientId(r) :> 1) @@ allowed
  ELSE [allowed EXCEPT ![ClientId(r)] = @ + 1]

PhaseAfter(route, r, rejected) ==
  IF ~IsLimited(route) THEN phase
  ELSE IF rejected THEN (ClientId(r) :> "limited") @@ phase
  ELSE IF ClientId(r) \notin DOMAIN rateLimitStore THEN (ClientId(r) :> "first") @@ phase
  ELSE IF now > rateLimitStore[ClientId(r)].resetTime
    THEN (ClientId(r) :> (IF phase[ClientId(r)] = "limited" THEN "readmitted"
                          ELSE "renewed")) @@ phase
  ELSE phase

PostedAfter(r, response) ==
  IF response.by = "POST /config/features" /\ response.status = 200
    THEN [k \in DOMAIN posted \cup DOMAIN r.bodyFeatures |->
            IF k \in DOMAIN r.bodyFeatures THEN r.bodyFeatures[k] ELSE posted[k]]
  ELSE posted

\* the request is let through at time now, in the window the store after
\* it gives its client; it came from r.ip and declared the app id
\* x-app-id || 'unknown'
AdmittedAfter(route, r, rejected, store) ==
  IF ~IsLimited(route) \/ rejected \/ ClientId(r) \notin DOMAIN admitted THEN admitted
  ELSE LET at == <<store[ClientId(r)].resetTime - RATE_LIMIT_WINDOW, now,
                   r.ip, OrElse(r.xAppId, "unknown")>>
           before == admitted[ClientId(r)]
       IN  [admitted EXCEPT ![ClientId(r)] =
              (at :> (IF at \in DOMAIN before THEN before[at] + 1 ELSE 1)) @@ before]

\* one request, from the router's dispatch to the response
Handle(r) ==
  LET route == Route(r)
      gate == RunMiddlewares(Middlewares(route), 1,
                [next |-> TRUE, store |-> rateLimitStore, key |-> Undefined,
                 resp |-> NoResponse],
                VALID_API_KEYS, r, now)
      out == IF gate.next THEN RunHandler(route, env, docs, configCache, r)
             ELSE [heap |-> docs, resp |-> gate.resp]
  IN  /\ UNCHANGED <<env, configCache, now>>
      /\ UNCHANGED clientVars
      /\ req' = [r EXCEPT !.validatedApiKey = gate.key]
      /\ rateLimitStore' = gate.store
      /\ docs' = out.heap
      /\ resp' = out.resp
      /\ allowed' = AllowedAfter(route, r, gate.resp.by = "rateLimit")
      /\ phase' = PhaseAfter(route, r, gate.resp.by = "rateLimit")
      /\ posted' = PostedAfter(r, out.resp)
      /\ admitted' = AdmittedAfter(route, r, gate.resp.by = "rateLimit", gate.store)

-----------------------------------------------------------------------------
(* The iOS client: ConfigurationService (src/unnamed/part_000)              *)
(*                                                                         *)
(* The class is @MainActor: a call runs without interruption up to its     *)
(* await of urlSession.data and again from the resumption to its end.  A   *)
(* Data value is [json: whether it is JSON text, object: the value the     *)
(* text denotes]; an AppConfig is a document with exactly the three flags  *)
(* of FeatureFlags.  The optional metadata member, which the server always *)
(* sends complete, is left out of both.                                    *)

\* the services the source constructs: ContentView's and AppDelegate's
Services == {"ContentView", "AppDelegate"}

\* nil, for a Date?
NoDate == -1

\* ConfigError: the case and its associated value
ConfigError(case, value) == [case |-> case, value |-> value]

\* nil, for a ConfigError?
NoError == ConfigError("nil", "")

\* Data values
Data(json, object) == [json |-> json, object |-> object]

\* the members of FeatureFlags, in the order they are decoded
FeatureFlags == <<"darkMode", "analytics", "newCheckout">>

\* the DecodingError a keyed container throws for a flag map, "" when every
\* member of FeatureFlags decodes as Bool
RECURSIVE DecodeFlags(_, _)
DecodeFlags(flags, i) ==
  IF i > Len(FeatureFlags) THEN ""
  ELSE IF FeatureFlags[i] \notin DOMAIN flags THEN "keyNotFound"
  ELSE IF flags[FeatureFlags[i]] = "null" THEN "valueNotFound"
  ELSE IF flags[FeatureFlags[i]] \notin {"true", "false"} THEN "typeMismatch"
  ELSE DecodeFlags(flags, i + 1)

\* JSONDecoder().decode(AppConfig.self, from: data): [threw: the case of the
\* DecodingError thrown, "" when none; value: the AppConfig].  JSON.stringify
\* leaves out a member whose value is undefined.
DecodeAppConfig(data) ==
  LET d == data.object[1]
      strings == <<d.aws.cognito.userPoolId, d.aws.cognito.appClientId,
                   d.api.websocketEndpoint, d.bot.botId, d.bot.foundationModel>>
  IN  IF ~data.json \/ data.object = <<>>
        THEN [threw |-> "dataCorrupted", value |-> <<>>]
      ELSE IF \E i \in 1..Len(strings) : strings[i] = Undefined
        THEN [threw |-> "keyNotFound", value |-> <<>>]
      ELSE IF ~d.hasFeatures THEN [threw |-> "keyNotFound", value |-> <<>>]
      ELSE IF DecodeFlags(d.features, 1) # ""
        THEN [threw |-> DecodeFlags(d.features, 1), value |-> <<>>]
      ELSE IF d.version = Undefined THEN [threw |-> "keyNotFound", value |-> <<>>]
      ELSE [threw |-> "",
            value |-> <<[d EXCEPT !.features =
                           [k \in {FeatureFlags[i] : i \in 1..Len(FeatureFlags)} |->
                              d.features[k]]]>>]

\* JSONEncoder().encode(config)
EncodeAppConfig(config) == Data(TRUE, <<config>>)

\* JSONDecoder().decode(ConfigVersion.self, from: data)
DecodeConfigVersion(data) ==
  IF ~data.json \/ data.object = <<>>
    THEN [threw |-> "dataCorrupted", value |-> <<>>]
  ELSE IF \E k \in {"version", "timestamp", "checksum"} :
            k \notin DOMAIN data.object[1]
    THEN [threw |-> "keyNotFound", value |-> <<>>]
  ELSE IF \E k \in {"version", "timestamp", "checksum"} : data.object[1][k] = "null"
    THEN [threw |-> "valueNotFound", value |-> <<>>]
  ELSE [threw |-> "", value |-> data.object]

\* what urlSession.data(for:) does: it throws a URLError, or returns the
\* status, the Retry-After header and the body of an HTTP response
TransportFailure == [threw |-> "URLError", status |-> 0, retryAfter |-> Undefined,
                     data |-> Data(FALSE, <<>>)]

HttpResponse(status, data) ==
  [threw |-> "", status |-> status, retryAfter |-> Undefined, data |-> data]

\* UserDefaults.standard: the data under "cached_app_config" (<<>> when there
\* is none) and the date under "last_config_fetch"
UserDefaults(config, lastFetch) == [config |-> config, lastFetch |-> lastFetch]

NoUserDefaults == UserDefaults(<<>>, NoDate)

\* handleHTTPResponse(response): the ConfigError thrown, NoError when none
handleHTTPResponse(response) ==
  IF response.status = 200 THEN NoError
  ELSE IF response.status = 401 THEN ConfigError("unauthorized", "")
  ELSE IF response.status = 429
    THEN ConfigError("rateLimited",
                     IF response.retryAfter = Undefined THEN "nil" ELSE response.retryAfter)
  ELSE ConfigError("serverError", ToString(response.status))

\* performConfigurationRequest() from the resumption on: [error: the
\* ConfigError thrown, NoError when none; value: the AppConfig returned]
performConfigurationRequest(outcome) ==
  IF outcome.threw # ""
    THEN [error |-> ConfigError("networkError", outcome.threw), value |-> <<>>]
  ELSE IF handleHTTPResponse(outcome) # NoError
    THEN [error |-> handleHTTPResponse(outcome), value |-> <<>>]
  ELSE IF DecodeAppConfig(outcome.data).threw \in {"keyNotFound", "typeMismatch"}
    THEN [error |-> ConfigError("decodingError", DecodeAppConfig(outcome.data).threw),
          value |-> <<>>]
  ELSE IF DecodeAppConfig(outcome.data).threw # ""
    THEN [error |-> ConfigError("networkError", DecodeAppConfig(outcome.data).threw),
          value |-> <<>>]
  ELSE [error |-> NoError, value |-> DecodeAppConfig(outcome.data).value]

\* fetchConfigurationVersion() from the resumption on: [error, value]
fetchConfigurationVersion(outcome) ==
  IF outcome.threw # ""
    THEN [error |-> ConfigError("networkError", outcome.threw), value |-> <<>>]
  ELSE IF handleHTTPResponse(outcome) # NoError
    THEN [error |-> handleHTTPResponse(outcome), value |-> <<>>]
  ELSE IF DecodeConfigVersion(outcome.data).threw # ""
    THEN [error |-> ConfigError("networkError", DecodeConfigVersion(outcome.data).threw),
          value |-> <<>>]
  ELSE [error |-> NoError, value |-> DecodeConfigVersion(outcome.data).value]

\* the properties of one service and the defaults, as the private methods
\* read and write them
ServiceState(config, updated, defaults) ==
  [currentConfig |-> config, lastUpdateTime |-> updated, userDefaults |-> defaults]

\* cacheConfiguration(config) at date t
cacheConfiguration(st, config, t) ==
  [st EXCEPT !.userDefaults = UserDefaults(<<EncodeAppConfig(config)>>, t)]

\* loadCachedConfiguration()
loadCachedConfigurationNever(st) == st

loadCachedConfiguration(st) ==
  IF st.userDefaults.config = <<>> THEN st
  ELSE IF DecodeAppConfig(st.userDefaults.config[1]).threw = ""
    THEN [st EXCEPT !.currentConfig = DecodeAppConfig(st.userDefaults.config[1]).value,
                    !.lastUpdateTime = st.userDefaults.lastFetch]
  ELSE [st EXCEPT !.userDefaults = NoUserDefaults]

\* shouldRefreshConfiguration() at date t
shouldRefreshConfiguration(defaults, t) ==
  IF defaults.lastFetch = NoDate THEN TRUE
  ELSE t - defaults.lastFetch > 300

\* fetchConfiguration() from the resumption on, but for isLoading:
\* [state: the ServiceState after, error: the ConfigError the catch assigns
\* to self.error, NoError when the call succeeds and assigns none]
fetchConfiguration(st, outcome, t) ==
  LET request == performConfigurationRequest(outcome) IN
  IF request.error = NoError
    THEN [state |-> cacheConfiguration(
                      [st EXCEPT !.currentConfig = request.value, !.lastUpdateTime = t],
                      request.value[1], t),
          error |-> NoError]
  ELSE [state |-> IF st.currentConfig = <<>> THEN loadCachedConfiguration(st) ELSE st,
        error |-> request.error]

\* the call that ran last: the method, the service, whether it ran to its
\* suspension ("await") or to its end ("return"), what urlSession.data gave
\* it, the error it threw, and whether the service held a document when the
\* call was resumed
Event(method, service, point, outcome, thrown, held) ==
  [method |-> method, service |-> service, point |-> point, outcome |-> outcome,
   thrown |-> thrown, held |-> held]

NoEvent == Event("", "", "", TransportFailure, NoError, FALSE)

\* a call of method on service s runs up to its await of urlSession.data
Suspend(method, s) ==
  /\ inFlight' = [inFlight EXCEPT ![s][method] = @ + 1]
  /\ event' = Event(method, s, "await", TransportFailure, NoError, FALSE)

\* fetchConfiguration() is called on service s
fetchConfigurationCalled(s) ==
  /\ isLoading' = [isLoading EXCEPT ![s] = TRUE]
  /\ configError' = [configError EXCEPT ![s] = NoError]
  /\ Suspend("fetchConfiguration", s)
  /\ UNCHANGED <<currentConfig, lastUpdateTime, userDefaults, date>>
  /\ UNCHANGED serverVars

\* urlSession.data gives a call of fetchConfiguration() on service s its
\* outcome and the call runs to its end
fetchConfigurationResumed(s, outcome) ==
  LET out == fetchConfiguration(
               ServiceState(currentConfig[s], lastUpdateTime[s], userDefaults),
               outcome, date)
  IN  /\ inFlight[s]["fetchConfiguration"] > 0
      /\ inFlight' = [inFlight EXCEPT ![s]["fetchConfiguration"] = @ - 1]
      /\ currentConfig' = [currentConfig EXCEPT ![s] = out.state.currentConfig]
      /\ lastUpdateTime' = [lastUpdateTime EXCEPT ![s] = out.state.lastUpdateTime]
      /\ userDefaults' = out.state.userDefaults
      /\ configError' = IF out.error = NoError THEN configError
                        ELSE [configError EXCEPT ![s] = out.error]
      /\ isLoading' = [isLoading EXCEPT ![s] = FALSE]
      /\ event' = Event("fetchConfiguration", s, "return", outcome, out.error,
                        currentConfig[s] # <<>>)
      /\ UNCHANGED date
      /\ UNCHANGED serverVars

\* fetchConfigurationIfNeeded() is called on service s
fetchConfigurationIfNeededCalled(s) ==
  IF shouldRefreshConfiguration(userDefaults, date)
    THEN fetchConfigurationCalled(s)
  ELSE /\ event' = Event("fetchConfigurationIfNeeded", s, "return", TransportFailure,
                         NoError, FALSE)
       /\ UNCHANGED <<currentConfig, isLoading, lastUpdateTime, configError, userDefaults,
                      inFlight, date>>
       /\ UNCHANGED serverVars

\* fetchConfigurationVersion() is called on service s
fetchConfigurationVersionCalled(s) ==
  /\ Suspend("fetchConfigurationVersion", s)
  /\ UNCHANGED <<currentConfig, isLoading, lastUpdateTime, configError, userDefaults, date>>
  /\ UNCHANGED serverVars

\* a call of fetchConfigurationVersion() on service s is resumed and returns
\* or throws
fetchConfigurationVersionResumed(s, outcome) ==
  /\ inFlight[s]["fetchConfigurationVersion"] > 0
  /\ inFlight' = [inFlight EXCEPT ![s]["fetchConfigurationVersion"] = @ - 1]
  /\ event' = Event("fetchConfigurationVersion", s, "return", outcome,
                    fetchConfigurationVersion(outcome).error, FALSE)
  /\ UNCHANGED <<currentConfig, isLoading, lastUpdateTime, configError, userDefaults, date>>
  /\ UNCHANGED serverVars

\* clearCache() is called on service s
clearCache(s) ==
  /\ userDefaults' = NoUserDefaults
  /\ currentConfig' = [currentConfig EXCEPT ![s] = <<>>]
  /\ lastUpdateTime' = [lastUpdateTime EXCEPT ![s] = NoDate]
  /\ event' = Event("clearCache", s, "return", TransportFailure, NoError, FALSE)
  /\ UNCHANGED <<isLoading, configError, inFlight, date>>
  /\ UNCHANGED serverVars

\* init(baseURL:apiKey:) of every service, with the defaults the last run of
\* the app left: each loads the cached configuration
InitClient(defaults) ==
  LET loaded == loadCachedConfiguration(ServiceState(<<>>, NoDate, defaults)) IN
  /\ currentConfig = [s \in Services |-> loaded.currentConfig]
  /\ lastUpdateTime = [s \in Services |-> loaded.lastUpdateTime]
  /\ userDefaults = loaded.userDefaults
  /\ isLoading = [s \in Services |-> FALSE]
  /\ configError = [s \in Services |-> NoError]
  /\ inFlight = [s \in Services |->
                   [fetchConfiguration |-> 0, fetchConfigurationVersion |-> 0]]
  /\ date = 0
  /\ event = NoEvent

-----------------------------------------------------------------------------
(* The process environment and the requests of the model *)

Environment(keys, admin, appConfig, appConfigTest, appConfig2) ==
  [name \in {"API_KEY_IOS", "API_KEY_ANDROID", "API_KEY_WEB", "ADMIN_API_KEY",
             "APP_CONFIG", "APP_CONFIG_TEST", "APP_CONFIG_2"} |->
     CASE name = "API_KEY_IOS" -> keys[1]
       [] name = "API_KEY_ANDROID" -> keys[2]
       [] name = "API_KEY_WEB" -> keys[3]
       [] name = "ADMIN_API_KEY" -> admin
       [] name = "APP_CONFIG" -> appConfig
       [] name = "APP_CONFIG_TEST" -> appConfigTest
       [] name = "APP_CONFIG_2" -> appConfig2]

KeyConfigurations ==
  {<<Undefined, Undefined, Undefined>>,
   <<"", Undefined, Undefined>>,
   <<"ios-key", Undefined, Undefined>>,
   <<"ios-key", "android-key", "web-key">>}

\* every key configuration with the usual inputs, and every combination of
\* admin secret and structured inputs with all three keys
Environments ==
  {Environment(k, "admin-secret", JsonDefault, Undefined, Undefined) :
     k \in KeyConfigurations}
  \cup {Environment(<<"ios-key", "android-key", "web-key">>, a, c, t, v) :
          a \in {Undefined, "admin-secret"},
          c \in {Undefined, JsonBroken, JsonDefault, JsonNoFeatures},
          t \in {Undefined, JsonTest}, v \in {Undefined, JsonV2}}

\* the environment of the rate-limiter runs: every key and input configured
RateEnvironment ==
  Environment(<<"ios-key", "android-key", "web-key">>, "admin-secret",
              JsonDefault, JsonTest, JsonV2)

Get(path, ip, xAppId, xApiKey, authorization, queryApiKey) ==
  Request("GET", path, ip, xApiKey, authorization, queryApiKey, xAppId,
          "1.0", "ios", Undefined, "none", NoFlags)

Post(xApiKey, xAdminKey, bodyKind, bodyFeatures) ==
  Request("POST", <<"config", "features">>, "10.0.0.1", xApiKey, Undefined,
          Undefined, "app", "1.0", "ios", xAdminKey, bodyKind, bodyFeatures)

GetPaths ==
  {<<"config">>, <<"config", "version">>, <<"config", "test">>,
   <<"v2", "config">>, <<"v9", "config">>, <<"v2", "config", "test">>,
   <<"v9", "config", "test">>, <<"v3", "config", "production">>}

\* the GET requests of the configuration runs: every path with a valid key,
\* and the default document with each kind of candidate key
GetRequests ==
  {Get(p, "10.0.0.1", "app", "ios-key", Undefined, Undefined) : p \in GetPaths}
  \cup {Get(<<"config">>, "10.0.0.1", "app", k, Undefined, Undefined) :
          k \in {Undefined, "", "wrong-key", "android-key"}}
  \cup {Get(<<"config">>, "10.0.0.1", "app", Undefined, a, q) :
          a \in {Undefined, "Bearer web-key"}, q \in {Undefined, "ios-key"}}

PostedFlags ==
  {Flags({<<"newCheckout", "true">>}),
   Flags({<<"newCheckout", "false">>}),
   Flags({<<"darkMode", "true">>, <<"beta", "true">>}),
   Flags({<<"beta", "false">>})}

PostRequests ==
  {Post("ios-key", a, "object", f) :
     a \in {Undefined, "admin-secret", "guess"}, f \in PostedFlags}
  \cup {Post("ios-key", a, "none", NoFlags) : a \in {Undefined, "admin-secret"}}
  \cup {Post("ios-key", "admin-secret", "string", NoFlags)}
  \cup {Post(k, "admin-secret", "object", Flags({<<"beta", "false">>})) :
          k \in {Undefined, "wrong-key"}}

\* the clients of the rate-limiter runs: two whose (IP, app id) pairs differ
\* and one that sends no X-App-Id
HeavyRequests ==
  {Get(<<"config">>, "10.0.0.1", "1a", "ios-key", Undefined, Undefined),
   Get(<<"v2", "config">>, "10.0.0.1", "1a", Undefined, Undefined, Undefined),
   Get(<<"config">>, "10.0.0.11", "a", "ios-key", Undefined, Undefined)}

LightRequests ==
  {Get(<<"config">>, "10.0.0.1", Undefined, "ios-key", Undefined, Undefined),
   Get(<<"config", "version">>, "10.0.0.1", Undefined, "wrong-key", Undefined, Undefined),
   Get(<<"v2", "config", "test">>, "10.0.0.1", "unknown", Undefined, Undefined, Undefined)}

\* requests that name no environment, or production, with a version
\* parameter that is the cache key of a test variant
TestKeyRequests ==
  {Get(p, "10.0.0.1", "app", "ios-key", Undefined, Undefined) :
     p \in {<<"v_test", "config">>, <<"v2_test", "config">>,
            <<"v2_test", "config", "production">>}}

\* the GET requests of the client that sends the updates
AdminClient == Get(<<"config">>, "10.0.0.1", "app", "ios-key", Undefined, Undefined)

AllRequests ==
  GetRequests \cup PostRequests \cup HeavyRequests \cup LightRequests \cup {AdminClient}
  \cup TestKeyRequests

\* bounds of the exploration
MaxBurst == 2
MaxNow == 61500
TickSteps == {20500, 39500}

\* a client that sends at most n requests in one window
WithinBurst(r, n) ==
  IF ClientId(r) \notin DOMAIN rateLimitStore THEN TRUE
  ELSE rateLimitStore[ClientId(r)].count < n
       \/ now > rateLimitStore[ClientId(r)].resetTime

-----------------------------------------------------------------------------
(* Specifications *)

InitEnv(e) ==
  /\ env = e
  /\ docs = Startup(e).heap
  /\ configCache = Startup(e).cache
  /\ rateLimitStore = <<>>
  /\ now = 0
  /\ req = NoRequest
  /\ resp = NoResponse
  /\ allowed = <<>>
  /\ phase = <<>>
  /\ posted = NoFlags
  /\ admitted = <<>>
  /\ InitClient(NoUserDefaults)

Init == \E e \in Environments : InitEnv(e)

GetRequest == \E r \in GetRequests : WithinBurst(r, MaxBurst) /\ Handle(r)

PostRequest == \E r \in PostRequests : Handle(r)

Next == GetRequest \/ PostRequest

\* the configuration runs: every environment, light traffic, no clock
Spec == Init /\ [][Next]_vars

InitRate == InitEnv(RateEnvironment)

Tick ==
  /\ \E d \in TickSteps : now + d <= MaxNow /\ now' = now + d
  /\ UNCHANGED <<env, docs, configCache, rateLimitStore, req, resp, allowed, phase, posted,
                 admitted>>
  /\ UNCHANGED clientVars

HeavyRequest == \E r \in HeavyRequests : Handle(r)

LightRequest == \E r \in LightRequests : WithinBurst(r, MaxBurst) /\ Handle(r)

NextRate == Tick \/ HeavyRequest \/ LightRequest

\* the rate-limiter runs: one environment, the clock, a client that never stops
SpecRate == InitRate /\ [][NextRate]_vars

\* the client of the burst runs, and the times at which it sends: the start
\* of a window, the next millisecond, and the first millisecond after the
\* window
BurstClient == Get(<<"config">>, "10.0.0.7", "burst", "ios-key", Undefined, Undefined)

BurstTimes == <<0, 1, RATE_LIMIT_WINDOW + 1>>

InitBurst ==
  /\ env = RateEnvironment
  /\ docs = Startup(RateEnvironment).heap
  /\ configCache = Startup(RateEnvironment).cache
  /\ rateLimitStore = <<>>
  /\ now = BurstTimes[1]
  /\ req = NoRequest
  /\ resp = NoResponse
  /\ allowed = <<>>
  /\ phase = <<>>
  /\ posted = NoFlags
  /\ admitted = (ClientId(BurstClient) :> <<>>)
  /\ InitClient(NoUserDefaults)

BurstRequest == Handle(BurstClient)

BurstTick ==
  /\ \E i \in 1..(Len(BurstTimes) - 1) : now = BurstTimes[i] /\ now' = BurstTimes[i + 1]
  /\ UNCHANGED <<env, docs, configCache, rateLimitStore, req, resp, allowed, phase, posted,
                 admitted>>
  /\ UNCHANGED clientVars

NextBurst == BurstRequest \/ BurstTick

\* the burst runs: one client whose every admission is recorded
SpecBurst == InitBurst /\ [][NextBurst]_vars

\* the store starts empty and every admission of the entry that two of the
\* heavy clients share is recorded
InitShared ==
  /\ env = RateEnvironment
  /\ docs = Startup(RateEnvironment).heap
  /\ configCache = Startup(RateEnvironment).cache
  /\ rateLimitStore = <<>>
  /\ now = 0
  /\ req = NoRequest
  /\ resp = NoResponse
  /\ allowed = <<>>
  /\ phase = <<>>
  /\ posted = NoFlags
  /\ admitted = [c \in {ClientId(r) : r \in HeavyRequests} |-> <<>>]
  /\ InitClient(NoUserDefaults)

\* the shared-entry runs: the heavy clients within one window, each
\* admission recorded with the (IP, app id) pair it came from
NextShared == HeavyRequest

SpecShared == InitShared /\ [][NextShared]_vars

AdminGet == Handle(AdminClient)

AdminPost == \E r \in PostRequests : Handle(r)

NextAdmin == AdminGet \/ AdminPost

\* the update runs: a client that sends GET requests without end and, at any
\* moment, updates
SpecAdmin == InitRate /\ [][NextAdmin]_vars

\* the environments of the key-validation runs: every key configuration
KeyEnvironments ==
  {Environment(k, "admin-secret", JsonDefault, Undefined, Undefined) :
     k \in KeyConfigurations}

\* the requests of the key-validation runs: every combination of the three
\* key sources on the default document, every route with no key, a wrong key
\* and a valid one, and the features update with each
KeyRequests ==
  {Get(<<"config">>, "10.0.0.1", "app", k, a, q) :
     k \in {Undefined, "", "wrong-key", "ios-key"},
     a \in {Undefined, "Bearer ", "Bearer wrong-key", "Bearer web-key", "web-key"},
     q \in {Undefined, "wrong-key", "ios-key"}}
  \cup {Get(p, "10.0.0.1", "app", k, Undefined, Undefined) :
          p \in GetPaths, k \in {Undefined, "wrong-key", "ios-key"}}
  \cup {Post(k, "admin-secret", "object", Flags({<<"beta", "false">>})) :
          k \in {Undefined, "wrong-key", "ios-key"}}

\* the GET routes with and without each of the headers validateRequest reads
HeaderRequests ==
  {[Get(p, "10.0.0.1", "app", "ios-key", Undefined, Undefined)
      EXCEPT !.xAppId = i, !.xAppVersion = v, !.xPlatform = f] :
     p \in {<<"config">>, <<"config", "test">>, <<"v2", "config">>,
            <<"v2", "config", "test">>},
     i \in {Undefined, "", "app"}, v \in {Undefined, "1.0"}, f \in {Undefined, "ios"}}

InitKeys == \E e \in KeyEnvironments : InitEnv(e)

KeyRequest == \E r \in KeyRequests : WithinBurst(r, MaxBurst) /\ Handle(r)

HeaderRequest == \E r \in HeaderRequests : WithinBurst(r, MaxBurst) /\ Handle(r)

NextKeys == KeyRequest \/ HeaderRequest

\* the key-validation runs: every key configuration, every shape of request
SpecKeys == InitKeys /\ [][NextKeys]_vars

\* the individual variables getLegacyConfig reads, all set
LegacyVariables(darkMode, analytics, newCheckout) ==
  [USER_POOL_ID |-> "p0", APP_CLIENT_ID |-> "c0", WEBSOCKET_ENDPOINT |-> "wss://0",
   BOT_ID |-> "b0", FOUNDATION_MODEL |-> "m0", FEATURE_DARK_MODE |-> darkMode,
   FEATURE_ANALYTICS |-> analytics, FEATURE_NEW_CHECKOUT |-> newCheckout,
   CONFIG_VERSION |-> "0.9.0"]

\* none of them set
NoLegacyVariables == <<>>

\* process.env with every key, the admin secret, the structured inputs of
\* ("", ""), ("", test), (2, ""), (2, test) and (3, production), and the
\* individual variables
LoadEnvironment(appConfig, appConfigTest, appConfig2, appConfig2Test, appConfig3Production, legacy) ==
  legacy
  @@ [APP_CONFIG_2_TEST |-> appConfig2Test, APP_CONFIG_3_PRODUCTION |-> appConfig3Production]
  @@ Environment(<<"ios-key", "android-key", "web-key">>, "admin-secret",
                 appConfig, appConfigTest, appConfig2)

\* the environments of the loading runs: every combination of absent, broken
\* and valid structured inputs; the individual variables with and without a
\* default document; a structured input for an environment other than test
LoadEnvironments ==
  {LoadEnvironment(c, t, v, vt, Undefined, NoLegacyVariables) :
     c \in {Undefined, JsonBroken, JsonDefault}, t \in {Undefined, JsonBroken, JsonTest},
     v \in {Undefined, JsonBroken, JsonV2}, vt \in {Undefined, JsonBroken, JsonTest}}
  \cup {LoadEnvironment(c, Undefined, Undefined, Undefined, Undefined,
                        LegacyVariables(d, a, d)) :
          c \in {Undefined, JsonBroken, JsonDefault}, d \in {"true", "false"},
          a \in {"true", "false"}}
  \cup {LoadEnvironment(JsonDefault, JsonTest, Undefined, Undefined, p, NoLegacyVariables) :
          p \in {JsonV2, JsonBroken}}

LoadPaths ==
  {<<"config">>, <<"config", "test">>, <<"config", "production">>,
   <<"v2", "config">>, <<"v2", "config", "test">>, <<"v3", "config">>,
   <<"v3", "config", "test">>, <<"v3", "config", "production">>,
   <<"v5", "config", "test">>}

\* every (version, environment) pair of the loading runs, asked with a valid key
LoadRequests ==
  {Get(p, "10.0.0.1", "app", "ios-key", Undefined, Undefined) : p \in LoadPaths}

\* accepted updates of the default document's flags: a boolean, and a string
LoadUpdates ==
  {Post("ios-key", "admin-secret", "object", Flags({<<"beta", "true">>})),
   Post("ios-key", "admin-secret", "object", Flags({<<"darkMode", "\"yes\"">>}))}

InitLoad == \E e \in LoadEnvironments : InitEnv(e)

LoadRequest == \E r \in LoadRequests : WithinBurst(r, MaxBurst) /\ Handle(r)

LoadUpdate == \E r \in LoadUpdates : Handle(r)

TestKeyRequest == \E r \in TestKeyRequests : WithinBurst(r, MaxBurst) /\ Handle(r)

NextLoad == LoadRequest \/ LoadUpdate \/ TestKeyRequest

\* the loading runs: every shape of the inputs, every pair asked for
SpecLoad == InitLoad /\ [][NextLoad]_vars

\* the documents the client is sent: the default document, the default after
\* an update that set newCheckout and added beta, version 2's document (which
\* has no newCheckout), and the default with darkMode "yes" and with darkMode null
SentDefault == JsonParse(JsonDefault)

SentUpdated ==
  [SentDefault EXCEPT !.features =
     ObjectAssign(@, Flags({<<"newCheckout", "true">>, <<"beta", "true">>}))]

SentV2 == JsonParse(JsonV2)

SentString == [SentDefault EXCEPT !.features = ObjectAssign(@, Flags({<<"darkMode", "\"yes\"">>}))]

SentNull == [SentDefault EXCEPT !.features = ObjectAssign(@, Flags({<<"darkMode", "null">>}))]

\* the body of an error response, which the client does not read
ErrorData == Data(TRUE, <<>>)

\* what urlSession.data gives the calls of the fetching runs
FetchOutcomes ==
  {TransportFailure, HttpResponse(401, ErrorData),
   HttpResponse(200, Data(TRUE, <<SentDefault>>)),
   HttpResponse(200, Data(TRUE, <<SentUpdated>>))}

\* what it gives the calls of the decoding runs: every status the client
\* tells apart, and every way a 200 body decodes or fails to
DecodeOutcomes ==
  FetchOutcomes
  \cup {HttpResponse(status, ErrorData) : status \in {403, 429, 500}}
  \cup {HttpResponse(200, Data(TRUE, <<d>>)) : d \in {SentV2, SentString, SentNull}}
  \cup {HttpResponse(200, Data(FALSE, <<>>))}

\* the bodies GET /config/version is answered with: the version body, one
\* without checksum, one with a null checksum, the default document, no JSON
VersionOutcomes ==
  {TransportFailure, HttpResponse(401, ErrorData), HttpResponse(429, ErrorData),
   HttpResponse(200, Data(TRUE, <<[version |-> "1.2.0", timestamp |-> "t", checksum |-> "eyJhd3MiOnsiY29n"]>>)),
   HttpResponse(200, Data(TRUE, <<[version |-> "1.2.0", timestamp |-> "t"]>>)),
   HttpResponse(200, Data(TRUE, <<[version |-> "1.2.0", timestamp |-> "t", checksum |-> "null"]>>)),
   HttpResponse(200, Data(TRUE, <<SentDefault>>)),
   HttpResponse(200, Data(FALSE, <<>>))}

\* the defaults the last run of the app left: none, a cached configuration,
\* data that no longer decodes
StoredDefaults ==
  {NoUserDefaults,
   UserDefaults(<<EncodeAppConfig(DecodeAppConfig(Data(TRUE, <<SentDefault>>)).value[1])>>, 0),
   UserDefaults(<<Data(FALSE, <<>>)>>, 0)}

\* bounds of the client runs
MaxInFlight == 2
MaxDate == 301

\* the server as the rate-limiter runs start it, the client as it launches
InitClientRun ==
  /\ env = RateEnvironment
  /\ docs = Startup(RateEnvironment).heap
  /\ configCache = Startup(RateEnvironment).cache
  /\ rateLimitStore = <<>>
  /\ now = 0
  /\ req = NoRequest
  /\ resp = NoResponse
  /\ allowed = <<>>
  /\ phase = <<>>
  /\ posted = NoFlags
  /\ admitted = <<>>
  /\ \E defaults \in StoredDefaults : InitClient(defaults)

\* the refresh button, the retry button, .refreshable and the launch task
FetchCalled ==
  \E s \in Services :
    /\ inFlight[s]["fetchConfiguration"] < MaxInFlight
    /\ fetchConfigurationCalled(s)

\* the .task of ContentView
FetchIfNeededCalled ==
  /\ inFlight["ContentView"]["fetchConfiguration"] < MaxInFlight
  /\ fetchConfigurationIfNeededCalled("ContentView")

FetchResumed ==
  \E s \in Services : \E outcome \in FetchOutcomes : fetchConfigurationResumed(s, outcome)

CacheCleared == clearCache("ContentView")

\* Date() advances: to 300 s, then second by second
DatePasses ==
  /\ date' = (IF date < 300 THEN 300 ELSE date + 1)
  /\ date' <= MaxDate
  /\ UNCHANGED <<currentConfig, isLoading, lastUpdateTime, configError, userDefaults,
                 inFlight, event>>
  /\ UNCHANGED serverVars

NextFetch == FetchCalled \/ FetchIfNeededCalled \/ FetchResumed \/ CacheCleared \/ DatePasses

\* the fetching runs: two services, overlapping calls, the clock
SpecFetch == InitClientRun /\ [][NextFetch]_vars

DecodeCalled ==
  /\ inFlight["ContentView"]["fetchConfiguration"] = 0
  /\ fetchConfigurationCalled("ContentView")

DecodeResumed ==
  \E outcome \in DecodeOutcomes : fetchConfigurationResumed("ContentView", outcome)

VersionCalled ==
  /\ inFlight["ContentView"]["fetchConfigurationVersion"] = 0
  /\ fetchConfigurationVersionCalled("ContentView")

VersionResumed ==
  \E outcome \in VersionOutcomes : fetchConfigurationVersionResumed("ContentView", outcome)

NextDecode == DecodeCalled \/ DecodeResumed \/ VersionCalled \/ VersionResumed

\* the decoding runs: one service, one call of each method at a time, every
\* status and every shape of body
SpecDecode == InitClientRun /\ [][NextDecode]_vars

-----------------------------------------------------------------------------
(* Properties of the rate limiter, checked under SpecRate *)

\* this step handles request r
Handles(r) == [req' EXCEPT !.validatedApiKey = Undefined] = r /\ Handle(r)

\* the entry the limiter keeps for the client of request r, <<>> when none
EntryOf(store, r) ==
  IF ClientId(r) \in DOMAIN store THEN <<store[ClientId(r)]>> ELSE <<>>

\* the request finds an entry whose window has not elapsed
InWindow(r) ==
  IF ClientId(r) \in DOMAIN rateLimitStore
    THEN now <= rateLimitStore[ClientId(r)].resetTime
  ELSE FALSE

\* the request finds an entry whose window has elapsed
WindowElapsed(r) ==
  IF ClientId(r) \in DOMAIN rateLimitStore
    THEN now > rateLimitStore[ClientId(r)].resetTime
  ELSE FALSE

\* n is the least whole number of seconds that covers ms milliseconds
IsCeilingSeconds(n, ms) == n * 1000 >= ms /\ (n - 1) * 1000 < ms

\* the sum of f over the keys in S
RECURSIVE SumOver(_, _)
SumOver(f, S) ==
  IF S = {} THEN 0
  ELSE LET k == CHOOSE x \in S : TRUE IN f[k] + SumOver(f, S \ {k})

\* the client identity of the specification: the pair (source IP, declared
\* app id or "unknown")
Identity(r) == <<r.ip, OrElse(r.xAppId, "unknown")>>

\* the requests of the identity of request r that the limiter let through in
\* the current window of the entry it uses, by the record of admissions
AllowedOf(r) ==
  LET c == ClientId(r)
      start == rateLimitStore[c].resetTime - RATE_LIMIT_WINDOW
  IN  SumOver(admitted[c],
              {k \in DOMAIN admitted[c] :
                 k[1] = start /\ <<k[3], k[4]>> = Identity(r)})

\* C1: for every client identity, the (IP, app id) pair: of the requests it
\* sends on rate-limited routes while the window has not elapsed, the limiter
\* lets through those that arrive while fewer than RATE_LIMIT_MAX_REQUESTS of
\* that identity were let through in the window, and rejects every later one
\* with 429 and retryAfter = ceil((resetTime - now) / 1000), which lies
\* between 0 and the window's length in seconds.
C1_FirstMaxAllowed ==
  [][\A r \in AllRequests :
       (/\ Handles(r)
        /\ IsLimited(Route(r))
        /\ InWindow(r)
        /\ ClientId(r) \in DOMAIN admitted) =>
         IF AllowedOf(r) < RATE_LIMIT_MAX_REQUESTS
           THEN /\ resp'.by # "rateLimit"
                /\ allowed'[ClientId(r)] = allowed[ClientId(r)] + 1
           ELSE /\ resp'.by = "rateLimit"
                /\ resp'.status = 429
                /\ IsCeilingSeconds(resp'.retryAfter,
                                    rateLimitStore[ClientId(r)].resetTime - now)
                /\ resp'.retryAfter >= 0
                /\ resp'.retryAfter <= RATE_LIMIT_WINDOW \div 1000
                /\ allowed' = allowed]_vars

\* C2: the first request a client sends after its window elapsed is let
\* through and leaves its entry at count 1 and resetTime = now + window,
\* whatever the count was and even if the client was being rejected.
C2_ResetAfterWindow ==
  [][\A r \in AllRequests :
       (Handles(r) /\ IsLimited(Route(r)) /\ WindowElapsed(r)) =>
         /\ resp'.by # "rateLimit"
         /\ rateLimitStore'[ClientId(r)] =
              [count |-> 1, resetTime |-> now + RATE_LIMIT_WINDOW]]_vars

\* a client that was rejected in its last window has just been let through
C2_Witness ==
  /\ ClientId(req) \in DOMAIN phase
  /\ phase[ClientId(req)] = "readmitted"
  /\ resp.status = 200
  /\ rateLimitStore[ClientId(req)].count = 1

\* C3: a request never changes the rate-limit entry of a client whose
\* (IP, app id) pair differs from its own.
C3_IdentitiesIsolated ==
  [][\A r \in AllRequests : Handles(r) =>
       \A o \in AllRequests :
         Identity(o) # Identity(r) =>
           EntryOf(rateLimitStore', o) = EntryOf(rateLimitStore, o)]_vars

\* the entry of the client of request r counts this request: it was created,
\* renewed or incremented
Counted(r) ==
  IF ClientId(r) \notin DOMAIN rateLimitStore' THEN FALSE
  ELSE IF ClientId(r) \notin DOMAIN rateLimitStore \/ WindowElapsed(r)
    THEN rateLimitStore'[ClientId(r)].count = 1
  ELSE rateLimitStore'[ClientId(r)].count = rateLimitStore[ClientId(r)].count + 1

\* C4: on the GET routes the limiter runs before the key is validated: a
\* request over the limit gets 429 whatever its key, and a request rejected
\* with 401 was counted in its client's window first.
C4_LimitBeforeKey ==
  [][\A r \in AllRequests :
       (Handles(r) /\ r.method = "GET" /\ Route(r) # "none") =>
         /\ (InWindow(r) /\ allowed[ClientId(r)] >= RATE_LIMIT_MAX_REQUESTS)
              => resp'.status = 429
         /\ resp'.status = 401 => Counted(r)]_vars

\* a request with no key at all was rejected by the limiter
C4_Witness ==
  /\ resp.status = 429
  /\ ~Truthy(CandidateKey(req))
  /\ req.path = <<"v2", "config">>

-----------------------------------------------------------------------------
(* Properties of the routes, checked under Spec *)

\* the platform keys the environment configures
ConfiguredKeys == {VALID_API_KEYS[i] : i \in 1..Len(VALID_API_KEYS)} \ {Undefined}

HasValidKey(r) == Truthy(CandidateKey(r)) /\ CandidateKey(r) \in ConfiguredKeys

\* C5: a features update with a valid platform key and no X-Admin-Key header
\* is answered 403 in every environment and leaves every document unchanged.
C5_NoAdminKeyForbidden ==
  [][\A r \in PostRequests :
       (Handles(r) /\ HasValidKey(r) /\ r.xAdminKey = Undefined) =>
         resp'.status = 403 /\ docs' = docs]_vars

\* C6: GET /config/version with a valid key, within the limit, is answered by
\* the version handler: 200 and exactly {version, timestamp, checksum}, the
\* version being the default document's.
C6_VersionEndpoint ==
  (/\ req.method = "GET"
   /\ req.path = <<"config", "version">>
   /\ req.validatedApiKey # Undefined)
  => /\ resp.by = "GET /config/version"
     /\ resp.status = 200
     /\ resp.keys = {"version", "timestamp", "checksum"}
     /\ resp.version = docs[APP_CONFIG].version

\* the request names a version outside the declared set
UndeclaredVersion(r) ==
  /\ r.method = "GET"
  /\ Len(r.path) \in {2, 3}
  /\ r.path[2] = "config"
  /\ VersionMatches(r.path[1]) # {}
  /\ \A i \in 1..Len(DeclaredVersions) : VersionOf(r.path[1]) # DeclaredVersions[i]

\* C7: a gated request for an undeclared version is served the unversioned
\* default document, never an error.
C7_UndeclaredVersionServed ==
  (UndeclaredVersion(req) /\ req.validatedApiKey # Undefined)
  => resp.status = 200 /\ resp.config = <<docs[APP_CONFIG]>>

\* C8: GET /config serves every flag an accepted update set, with the value of
\* the last accepted update of that flag; the 200 response of an update
\* carries the whole features map as it is after the update.
C8_UpdateVisible ==
  /\ (resp.by = "GET /config" /\ resp.status = 200) =>
       \A k \in DOMAIN posted :
         /\ resp.config[1].hasFeatures
         /\ k \in DOMAIN resp.config[1].features
         /\ resp.config[1].features[k] = posted[k]
  /\ (resp.by = "POST /config/features" /\ resp.status = 200) =>
       /\ resp.features = docs[APP_CONFIG].features
       /\ \A k \in DOMAIN req.bodyFeatures : resp.features[k] = req.bodyFeatures[k]

\* the default document is served with a flag the startup did not give it and
\* with a flag whose value an update changed back and forth
C8_Witness ==
  /\ resp.by = "GET /config"
  /\ resp.status = 200
  /\ "beta" \in DOMAIN posted
  /\ "newCheckout" \in DOMAIN posted
  /\ posted["newCheckout"] = "true"
  /\ resp.config[1].features["newCheckout"] = "true"

\* C9: an accepted update overrides the named flags in the default document's
\* features map and keeps every other flag; merging a map twice is merging it
\* once, maps with disjoint flags merge in either order to the same result,
\* and on a shared flag the later map wins.
C9_ShallowMerge ==
  [][\A r \in PostRequests :
       (Handles(r) /\ resp'.status = 200) =>
         LET old == docs[APP_CONFIG].features
             new == docs'[APP_CONFIG].features
         IN  /\ DOMAIN new = DOMAIN old \cup DOMAIN r.bodyFeatures
             /\ \A k \in DOMAIN new :
                  new[k] = IF k \in DOMAIN r.bodyFeatures THEN r.bodyFeatures[k]
                           ELSE old[k]
             /\ \A m1, m2 \in PostedFlags :
                  /\ ObjectAssign(ObjectAssign(old, m1), m1) = ObjectAssign(old, m1)
                  /\ DOMAIN m1 \cap DOMAIN m2 = {} =>
                       ObjectAssign(ObjectAssign(old, m1), m2)
                         = ObjectAssign(ObjectAssign(old, m2), m1)
                  /\ \A k \in DOMAIN m1 \cap DOMAIN m2 :
                       ObjectAssign(ObjectAssign(old, m1), m2)[k] = m2[k]]_vars

\* an update added beta, overwrote darkMode and kept analytics and newCheckout
C9_Witness ==
  /\ resp.by = "POST /config/features"
  /\ resp.status = 200
  /\ req.bodyFeatures = Flags({<<"darkMode", "true">>, <<"beta", "true">>})
  /\ resp.features = Flags({<<"darkMode", "true">>, <<"analytics", "true">>,
                            <<"newCheckout", "true">>, <<"beta", "true">>})

\* C10: validateApiKey calls next() exactly when the candidate key equals a
\* configured platform key; it then sets req.validatedApiKey to it, and
\* otherwise answers 401 and changes no document.
C10_KeyAccepted ==
  [][\A r \in GetRequests \cup PostRequests :
       (Handles(r) /\ Route(r) # "none" /\ resp'.by # "rateLimit") =>
         /\ HasValidKey(r) <=> resp'.by # "validateApiKey"
         /\ HasValidKey(r) => req'.validatedApiKey = CandidateKey(r)
         /\ ~HasValidKey(r) =>
              /\ resp'.status = 401
              /\ req'.validatedApiKey = Undefined
              /\ docs' = docs]_vars

\* the Web key, sent as a bearer token, was accepted
C10_Witness ==
  /\ resp.status = 200
  /\ req.authorization = "Bearer web-key"
  /\ req.validatedApiKey = "web-key"

-----------------------------------------------------------------------------
(* Properties of the middlewares, checked under SpecKeys *)

\* no source of the request holds a key
NoKeyPresented(r) ==
  /\ r.xApiKey \in {Undefined, ""}
  /\ r.authorization \in {Undefined, "", "Bearer "}
  /\ r.queryApiKey \in {Undefined, ""}

\* the body of a key rejection, its message left out
C11_Rejection ==
  [ErrorResponse("validateApiKey", 401, {"error", "message"}, "Unauthorized", "", -1)
     EXCEPT !.message = ""]

\* C11: on every route, a request the limiter let through that holds no key or
\* an invalid key is answered 401 with the label Unauthorized and a body of
\* exactly {error, message}; the two cases differ in the message only.
C11_SameRejection ==
  (Route(req) # "none" /\ resp.by # "rateLimit" /\ ~HasValidKey(req)) =>
    /\ resp.status = 401
    /\ resp.error = "Unauthorized"
    /\ [resp EXCEPT !.message = ""] = C11_Rejection
    /\ resp.message =
         IF NoKeyPresented(req)
           THEN "API key is required. Provide it in X-API-Key header, Authorization header, or apiKey query parameter."
           ELSE "Invalid API key provided."

\* a versioned, environment-specific route rejected a wrong key with the
\* body a missing key gets, but for the message
C11_Witness ==
  /\ req.path = <<"v2", "config", "test">>
  /\ req.xApiKey = "wrong-key"
  /\ resp.status = 401
  /\ resp.message = "Invalid API key provided."
  /\ [resp EXCEPT !.message = ""] = C11_Rejection

\* the three key sources of a request in their priority order: the X-API-Key
\* header, the Authorization header without "Bearer ", the apiKey parameter
KeySources(r) == <<r.xApiKey, StripBearer(r.authorization), r.queryApiKey>>

\* a source holds a key: it is neither absent nor empty
Present(v) == v \notin {Undefined, ""}

\* the first source that holds a key is the i-th
FirstPresentAt(r, i) ==
  /\ Present(KeySources(r)[i])
  /\ \A j \in 1..(i - 1) : ~Present(KeySources(r)[j])

\* C12: a request the limiter let through is judged by the first key source
\* that is present and not empty, in the order X-API-Key, Authorization
\* without "Bearer ", apiKey: it passes exactly when that key is a configured
\* key, which then becomes req.validatedApiKey; a valid key in a later source
\* does not save a request whose earlier source holds an invalid one.
C12_FirstSourceDecides ==
  (Route(req) # "none" /\ resp.by # "rateLimit") =>
    /\ \A i \in 1..3 :
         FirstPresentAt(req, i) =>
           IF KeySources(req)[i] \in ConfiguredKeys
             THEN resp.by # "validateApiKey"
                  /\ req.validatedApiKey = KeySources(req)[i]
             ELSE resp.status = 401 /\ req.validatedApiKey = Undefined
    /\ (\A i \in 1..3 : ~Present(KeySources(req)[i])) => resp.status = 401

\* a wrong X-API-Key was rejected although the Authorization header and the
\* query parameter both held configured keys
C12_Witness ==
  /\ resp.status = 401
  /\ req.xApiKey = "wrong-key"
  /\ req.authorization = "Bearer web-key"
  /\ req.queryApiKey = "ios-key"
  /\ {"web-key", "ios-key"} \subseteq ConfiguredKeys

\* request r with the three advisory headers set to i, v and f
WithHeaders(r, i, v, f) == [r EXCEPT !.xAppId = i, !.xAppVersion = v, !.xPlatform = f]

\* r itself and r with each of the three advisory headers sent or left out
HeaderVariants(r) ==
  {r} \cup {WithHeaders(r, i, v, f) : i \in {Undefined, "other-app"},
                                      v \in {Undefined, "2.0"},
                                      f \in {Undefined, "android"}}

\* the response request r gets in the current state once rateLimit and
\* validateApiKey have called next(): validateRequest, then the handler
AfterKeyValidation(r) ==
  LET rest == RunMiddlewares(<<"validateRequest">>, 1,
                [next |-> TRUE, store |-> rateLimitStore, key |-> CandidateKey(r),
                 resp |-> NoResponse], VALID_API_KEYS, r, now)
  IN  IF rest.next THEN RunHandler(Route(r), env, docs, configCache, r).resp
      ELSE rest.resp

\* C13: a GET request that passed the limiter and the key check is answered
\* by its route's handler, and with the same status and the same document
\* whichever of X-App-Id, X-App-Version and X-Platform it carries or omits.
C13_HeadersNeverReject ==
  [][\A r \in KeyRequests \cup HeaderRequests :
       (Handles(r) /\ r.method = "GET" /\ Route(r) # "none"
          /\ req'.validatedApiKey # Undefined) =>
         /\ resp'.by = Route(r)
         /\ \A h \in HeaderVariants(r) :
              /\ AfterKeyValidation(h).status = resp'.status
              /\ AfterKeyValidation(h).config = resp'.config]_vars

\* the test document was served to a request with none of the three headers
C13_Witness ==
  /\ req.xAppId = Undefined
  /\ req.xAppVersion = Undefined
  /\ req.xPlatform = Undefined
  /\ req.path = <<"config", "test">>
  /\ resp.status = 200
  /\ resp.config = <<docs[APP_CONFIG_TEST]>>

\* C14: the body of every 401, 403 and 429 rejection holds an error label, a
\* message and a timestamp.
C14_RejectionsTimestamped ==
  resp.status \in {401, 403, 429} =>
    {"error", "message", "timestamp"} \subseteq resp.keys

-----------------------------------------------------------------------------
(* Properties of the loader, checked under SpecLoad *)

\* the input is present and is JSON
Parses(text) == Present(text) /\ ~JsonParseThrows(text)

\* the value of an individual variable, or its default when it is absent
InputOr(name, default) ==
  IF ProcessEnv(env, name) = Undefined THEN default ELSE ProcessEnv(env, name)

\* C15: the legacy document takes each field from its variable when the
\* variable is set and the default when it is not: foundationModel defaults
\* to "claude-v3.7-sonnet" and version to "1.0.0"; analytics is true for
\* 'true', false for 'false' and true when unset; darkMode and newCheckout
\* are true only for 'true'.
C15_LegacyFields ==
  (/\ resp.by = "GET /config"
   /\ resp.status = 200
   /\ posted = NoFlags
   /\ ~Parses(ProcessEnv(env, "APP_CONFIG"))) =>
    LET d == resp.config[1] IN
    /\ d.aws.cognito.userPoolId = ProcessEnv(env, "USER_POOL_ID")
    /\ d.aws.cognito.appClientId = ProcessEnv(env, "APP_CLIENT_ID")
    /\ d.api.websocketEndpoint = ProcessEnv(env, "WEBSOCKET_ENDPOINT")
    /\ d.bot.botId = ProcessEnv(env, "BOT_ID")
    /\ d.bot.foundationModel = InputOr("FOUNDATION_MODEL", "claude-v3.7-sonnet")
    /\ d.version = InputOr("CONFIG_VERSION", "1.0.0")
    /\ d.features["darkMode"] = JsBool(ProcessEnv(env, "FEATURE_DARK_MODE") = "true")
    /\ d.features["newCheckout"] = JsBool(ProcessEnv(env, "FEATURE_NEW_CHECKOUT") = "true")
    /\ d.features["analytics"] = JsBool(ProcessEnv(env, "FEATURE_ANALYTICS") # "false")

\* the version and the environment a GET request asks for
RequestedVersion(r) == IF r.path[1] = "config" THEN "" ELSE VersionOf(r.path[1])

RequestedEnvironment(r) ==
  IF Len(r.path) = 3 THEN r.path[3]
  ELSE IF Len(r.path) = 2 /\ r.path[1] = "config" THEN r.path[2]
  ELSE ""

Declared(version) == \E i \in 1..Len(DeclaredVersions) : DeclaredVersions[i] = version

\* a gated GET request for a declared version
AsksDeclared(r) ==
  /\ r.method = "GET"
  /\ Route(r) # "none"
  /\ r.validatedApiKey # Undefined
  /\ Declared(RequestedVersion(r))

\* the most specific document of (version, environment): its own structured
\* input if that is present and parses, else that of (version, ""), else that
\* of ("", ""), else the legacy document
RECURSIVE MostSpecific(_, _)
MostSpecific(version, environment) ==
  IF Parses(ProcessEnv(env, EnvVarName(version, environment)))
    THEN JsonParse(ProcessEnv(env, EnvVarName(version, environment)))
  ELSE IF environment # "" THEN MostSpecific(version, "")
  ELSE IF version # "" THEN MostSpecific("", "")
  ELSE getLegacyConfig(env)

\* document d is document m, but for the flags updates have set since startup
ServedAs(d, m) ==
  /\ [d EXCEPT !.features = NoFlags] = [m EXCEPT !.features = NoFlags]
  /\ posted = NoFlags => d = m

\* C16 as stated: a gated request for a declared version v and any
\* environment e is served the most specific document of (v, e).
C16_MostSpecificFirst ==
  AsksDeclared(req) =>
    /\ resp.status = 200
    /\ ServedAs(resp.config[1],
                MostSpecific(RequestedVersion(req), RequestedEnvironment(req)))

\* C16, amended: a gated request for a declared version v is served the most
\* specific document of (v, "test") when it asks for the environment test and
\* of (v, "") when it asks for any other environment or none, whatever
\* structured input that other environment has; it is always served a document.
C16_TestOrPlain ==
  AsksDeclared(req) =>
    /\ resp.status = 200
    /\ ServedAs(resp.config[1],
                MostSpecific(RequestedVersion(req),
                             IF RequestedEnvironment(req) = "test" THEN "test" ELSE ""))

\* version 3 was asked for production, which has a structured input of its
\* own, and the default document was served
C16_Witness ==
  /\ req.path = <<"v3", "config", "production">>
  /\ Parses(ProcessEnv(env, "APP_CONFIG_3_PRODUCTION"))
  /\ resp.status = 200
  /\ resp.config = <<JsonParse(JsonDefault)>>

\* the source the most specific document of (version, environment) is built
\* from: the name of a structured input, or the individual variables
RECURSIVE SourceOf(_, _)
SourceOf(version, environment) ==
  IF Parses(ProcessEnv(env, EnvVarName(version, environment)))
    THEN EnvVarName(version, environment)
  ELSE IF environment # "" THEN SourceOf(version, "")
  ELSE IF version # "" THEN SourceOf("", "")
  ELSE "individual variables"

\* C17: for every declared version v the cache holds a document for (v, "")
\* and one for (v, "test"), and the two are one instance only when both were
\* built from the same source, that is when (v, "test") fell back to (v, "").
C17_TestInstanceOwnSource ==
  \A i \in 1..Len(DeclaredVersions) :
    LET version == DeclaredVersions[i]
        plain == CacheGet(configCache, version)
        test == CacheGet(configCache, version \o "_test")
    IN  /\ plain \in 1..Len(docs)
        /\ test \in 1..Len(docs)
        /\ plain = test => SourceOf(version, "test") = SourceOf(version, "")

\* the default and its test variant are two instances, each from its own
\* input, version 2 and its test variant are one instance, and an update of
\* the default's flags has been accepted
C17_Witness ==
  /\ SourceOf("", "test") = "APP_CONFIG_TEST"
  /\ SourceOf("", "") = "APP_CONFIG"
  /\ APP_CONFIG_TEST # APP_CONFIG
  /\ SourceOf("2", "test") = SourceOf("2", "")
  /\ CacheGet(configCache, "2_test") = CacheGet(configCache, "2")
  /\ "beta" \in DOMAIN posted

\* the structured input of (version, environment) is present and is not JSON
Broken(version, environment) ==
  /\ Present(ProcessEnv(env, EnvVarName(version, environment)))
  /\ JsonParseThrows(ProcessEnv(env, EnvVarName(version, environment)))

\* the cache key of (version, environment), environment being "" or "test"
CacheKey(version, environment) ==
  IF environment = "test" THEN version \o "_test" ELSE version

\* the cache entry of (version, environment) is the document the pair falls
\* back to: the instance of (version, "") for a test variant, the default's
\* instance for a version, the legacy document for the default itself
IsFallback(version, environment) ==
  LET entry == CacheGet(configCache, CacheKey(version, environment)) IN
  /\ entry \in 1..Len(docs)
  /\ IF environment = "test" THEN entry = CacheGet(configCache, version)
     ELSE IF version # "" THEN entry = CacheGet(configCache, "")
     ELSE ServedAs(docs[entry], getLegacyConfig(env))

\* C18: when the structured input of a declared pair is present and is not
\* JSON, startup completes with the pair's cache entry being its fallback
\* document, and every gated request for the pair is answered 200 with it.
C18_ParseFailureRecovered ==
  /\ \A i \in 1..Len(DeclaredVersions) : \A environment \in {"", "test"} :
       Broken(DeclaredVersions[i], environment) =>
         IsFallback(DeclaredVersions[i], environment)
  /\ \A environment \in {"", "test"} :
       (/\ AsksDeclared(req)
        /\ environment = (IF RequestedEnvironment(req) = "test" THEN "test" ELSE "")
        /\ Broken(RequestedVersion(req), environment)) =>
         /\ resp.status = 200
         /\ resp.config =
              <<docs[CacheGet(configCache, CacheKey(RequestedVersion(req), environment))]>>

\* the test input of version 2 is not JSON, and a request for (2, test) was
\* served the document of version 2
C18_Witness ==
  /\ Broken("2", "test")
  /\ SourceOf("2", "") = "APP_CONFIG_2"
  /\ req.path = <<"v2", "config", "test">>
  /\ resp.status = 200
  /\ resp.config = <<docs[CacheGet(configCache, "2")]>>

-----------------------------------------------------------------------------
(* Properties of the features update and of the flags *)

\* the request carries an admin key and it is the configured admin secret
AdminKeyMatches(r) ==
  /\ r.xAdminKey # Undefined
  /\ r.xAdminKey = ProcessEnv(env, "ADMIN_API_KEY")

\* C19: a features update is answered 401 when its key is not valid, else 403
\* when its admin key is not the configured admin secret, else 400 when its
\* body has no features object; 401 is only ever the answer to a key failure
\* and 403 to an admin-key failure, and every rejected update leaves every
\* document as it was.
C19_RejectionOrder ==
  [][\A r \in PostRequests :
       Handles(r) =>
         /\ ~HasValidKey(r) => resp'.status = 401
         /\ (HasValidKey(r) /\ ~AdminKeyMatches(r)) => resp'.status = 403
         /\ (HasValidKey(r) /\ AdminKeyMatches(r) /\ r.bodyKind # "object")
              => resp'.status = 400
         /\ resp'.status = 401 => (~HasValidKey(r) /\ resp'.error = "Unauthorized")
         /\ resp'.status = 403 => (HasValidKey(r) /\ resp'.error = "Forbidden")
         /\ resp'.status # 200 => docs' = docs]_vars

\* the JSON literals of the booleans
JsonBooleans == {"true", "false"}

\* C20: every flag of every document served, and of every document held, is
\* a boolean.
C20_FlagsBoolean ==
  /\ \A i \in 1..Len(docs) : \A k \in DOMAIN docs[i].features :
       docs[i].features[k] \in JsonBooleans
  /\ \A i \in 1..Len(resp.config) : \A k \in DOMAIN resp.config[i].features :
       resp.config[i].features[k] \in JsonBooleans

-----------------------------------------------------------------------------
(* Further properties of the rate limiter and the document table *)

\* the count of the entry the limiter keeps for the client of request r, 0
\* when it keeps none
CountOf(store, r) ==
  IF ClientId(r) \in DOMAIN store THEN store[ClientId(r)].count ELSE 0

\* C23: however the requests of several clients interleave, every entry has
\* 1 <= count <= RATE_LIMIT_MAX_REQUESTS, no entry is removed, no resetTime
\* decreases, and the count of a client's entry is the number of that
\* client's requests let through in the entry's window: the request that
\* begins the window makes it 1, every other request of that (IP, app id)
\* pair the limiter lets through adds 1, and nothing else changes it.
C23_EntriesCountAllowed ==
  [][\A r \in AllRequests : Handles(r) =>
       /\ \A k \in DOMAIN rateLimitStore' :
            /\ rateLimitStore'[k].count >= 1
            /\ rateLimitStore'[k].count <= RATE_LIMIT_MAX_REQUESTS
       /\ \A k \in DOMAIN rateLimitStore :
            /\ k \in DOMAIN rateLimitStore'
            /\ rateLimitStore'[k].resetTime >= rateLimitStore[k].resetTime
       /\ \A o \in AllRequests :
            CountOf(rateLimitStore', o) =
              IF Identity(o) # Identity(r) \/ ~IsLimited(Route(r)) \/ resp'.by = "rateLimit"
                THEN CountOf(rateLimitStore, o)
              ELSE IF WindowBegins(rateLimitStore, r, now) THEN 1
              ELSE CountOf(rateLimitStore, o) + 1]_vars

\* C24: a request the limiter rejects with 429 leaves every entry of the
\* store as it was, the entry of its own client included: neither the count
\* nor resetTime changes, so a rejection never moves the end of the window.
C24_RejectionLeavesStore ==
  [][\A r \in AllRequests :
       (Handles(r) /\ resp'.by = "rateLimit") =>
         /\ resp'.status = 429
         /\ rateLimitStore' = rateLimitStore
         /\ EntryOf(rateLimitStore', r) = EntryOf(rateLimitStore, r)
         /\ allowed' = allowed]_vars

\* a request was just rejected in the last millisecond of a window that
\* began at time 0: the window still ends where its first request put it
C24_Witness ==
  /\ resp.by = "rateLimit"
  /\ now = RATE_LIMIT_WINDOW
  /\ rateLimitStore[ClientId(req)] =
       [count |-> RATE_LIMIT_MAX_REQUESTS, resetTime |-> RATE_LIMIT_WINDOW]

\* the admissions of client c in the interval of window length that begins
\* at time a, both ends included
AdmissionsFrom(c, a) ==
  {k \in DOMAIN admitted[c] : k[2] >= a /\ k[2] <= a + RATE_LIMIT_WINDOW}

\* C25: in every interval as long as the window, a client has at most
\* 2 * RATE_LIMIT_MAX_REQUESTS requests let through, and more than
\* RATE_LIMIT_MAX_REQUESTS only when the interval holds admissions of two
\* windows.  (An interval holds what the interval beginning at its first
\* admission holds, so those are the intervals examined.)
C25_AtMostTwiceMax ==
  \A c \in DOMAIN admitted : \A k \in DOMAIN admitted[c] :
    /\ SumOver(admitted[c], AdmissionsFrom(c, k[2])) <= 2 * RATE_LIMIT_MAX_REQUESTS
    /\ SumOver(admitted[c], AdmissionsFrom(c, k[2])) > RATE_LIMIT_MAX_REQUESTS
         => \E i, j \in AdmissionsFrom(c, k[2]) : i[1] # j[1]

\* a burst across the end of a window: 99 requests let through in the
\* millisecond after the window began and 100 in the first millisecond after
\* it ended
C25_Witness ==
  \E c \in DOMAIN admitted : \E k \in DOMAIN admitted[c] :
    /\ SumOver(admitted[c], AdmissionsFrom(c, k[2])) = 2 * RATE_LIMIT_MAX_REQUESTS - 1
    /\ \E i, j \in AdmissionsFrom(c, k[2]) : i[1] # j[1]

\* C26: POST /config/features does not pass the limiter: whatever the count
\* of its client, the request is never answered 429, and whether it is
\* accepted or rejected the store is the same before and after it.
C26_UpdateNotLimited ==
  [][\A r \in AllRequests :
       (Handles(r) /\ Route(r) = "POST /config/features") =>
         /\ resp'.status # 429
         /\ resp'.by # "rateLimit"
         /\ rateLimitStore' = rateLimitStore
         /\ allowed' = allowed]_vars

\* an update was accepted from a client whose GET requests are being rejected
C26_Witness ==
  /\ resp.by = "POST /config/features"
  /\ resp.status = 200
  /\ ClientId(req) \in DOMAIN rateLimitStore
  /\ rateLimitStore[ClientId(req)].count = RATE_LIMIT_MAX_REQUESTS
  /\ phase[ClientId(req)] = "limited"

\* C27: an accepted update is seen in the cache entry of a declared
\* (version, environment) exactly when the entry is the instance of the
\* unversioned default, which it is when the pair fell back to the default's
\* source at startup; an entry built from the pair's own structured input is
\* another instance and keeps its flags; and no entry's aws, api, bot or
\* version changes.
C27_MergeReachesDefaultInstance ==
  [][\A r \in LoadUpdates :
       (Handles(r) /\ resp'.by = "POST /config/features" /\ resp'.status = 200) =>
         \A i \in 1..Len(DeclaredVersions) : \A environment \in {"", "test"} :
           LET version == DeclaredVersions[i]
               entry == CacheGet(configCache, CacheKey(version, environment))
           IN  /\ CacheGet(configCache', CacheKey(version, environment)) = entry
               /\ [docs'[entry] EXCEPT !.features = NoFlags]
                    = [docs[entry] EXCEPT !.features = NoFlags]
               /\ docs'[entry].features =
                    IF entry = APP_CONFIG
                      THEN ObjectAssign(docs[entry].features, r.bodyFeatures)
                    ELSE docs[entry].features
               /\ SourceOf(version, environment) = SourceOf("", "") => entry = APP_CONFIG
               /\ (/\ CacheKey(version, environment) # ""
                   /\ SourceOf(version, environment) = EnvVarName(version, environment))
                    => entry # APP_CONFIG]_vars

\* an update that added beta was accepted: version 3, which fell back to the
\* default, has the flag; version 2 and the test default, each built from its
\* own input, do not
C27_Witness ==
  /\ resp.by = "POST /config/features"
  /\ resp.status = 200
  /\ SourceOf("2", "") = "APP_CONFIG_2"
  /\ SourceOf("", "test") = "APP_CONFIG_TEST"
  /\ CacheGet(configCache, "3") = APP_CONFIG
  /\ "beta" \in DOMAIN docs[CacheGet(configCache, "3")].features
  /\ "beta" \notin DOMAIN docs[CacheGet(configCache, "2")].features
  /\ "beta" \notin DOMAIN docs[APP_CONFIG_TEST].features

\* C28: a GET request that names no environment, or one other than "test",
\* and is answered 200 is served the cache entry of (v, "") for a declared
\* version v, never a document built from a test structured input, whatever
\* string the version parameter is.
C28_NoTestDocument ==
  (/\ req.method = "GET"
   /\ Route(req) # "none"
   /\ resp.status = 200
   /\ resp.config # <<>>
   /\ RequestedEnvironment(req) # "test") =>
    /\ \E i \in 1..Len(DeclaredVersions) :
         resp.config = <<docs[CacheGet(configCache, DeclaredVersions[i])]>>
    /\ \A i \in 1..Len(DeclaredVersions) :
         LET test == CacheGet(configCache, DeclaredVersions[i] \o "_test") IN
         (/\ SourceOf(DeclaredVersions[i], "test") = EnvVarName(DeclaredVersions[i], "test")
          /\ \A j \in 1..Len(DeclaredVersions) :
               docs[test] # docs[CacheGet(configCache, DeclaredVersions[j])])
           => resp.config # <<docs[test]>>

-----------------------------------------------------------------------------
(* Properties of the client, checked under SpecFetch and SpecDecode *)

\* this step is the end of a call of method on service s
Returns(method, s) ==
  /\ event'.method = method
  /\ event'.service = s
  /\ event'.point = "return"
  /\ inFlight'[s][method] = inFlight[s][method] - 1

\* the last step was the end of a call of method on service s
Returned(method, s) ==
  /\ event.method = method
  /\ event.service = s
  /\ event.point = "return"

\* the defaults hold a cached configuration that decodes
CachedGood(defaults) ==
  /\ defaults.config # <<>>
  /\ DecodeAppConfig(defaults.config[1]).threw = ""

\* C21: when a call of fetchConfiguration fails on a service that holds no
\* document while the defaults hold a cached configuration that decodes, the
\* service holds that configuration after the call, and its error is the
\* failure.
C21_FallbackToCache ==
  [][\A s \in Services :
       (/\ Returns("fetchConfiguration", s)
        /\ event'.thrown # NoError
        /\ currentConfig[s] = <<>>
        /\ CachedGood(userDefaults))
       => /\ currentConfig'[s] = userDefaults.config[1].object
          /\ currentConfig'[s] # <<>>
          /\ configError'[s] = event'.thrown]_vars

\* a failed call has just ended on a service that held no document, and the
\* service now holds the cached one
C21_Witness ==
  \E s \in Services :
    /\ Returned("fetchConfiguration", s)
    /\ event.thrown # NoError
    /\ ~event.held
    /\ CachedGood(userDefaults)
    /\ currentConfig[s] = userDefaults.config[1].object
    /\ configError[s] = event.thrown

\* the decoding of the body the last call was given failed: the call was
\* answered 200 and the decoder of its result type threw
DecodeFailed ==
  /\ event.outcome.threw = ""
  /\ event.outcome.status = 200
  /\ IF event.method = "fetchConfiguration"
       THEN DecodeAppConfig(event.outcome.data).threw # ""
       ELSE DecodeConfigVersion(event.outcome.data).threw # ""

\* C22: a call of fetchConfiguration or fetchConfigurationVersion whose 200
\* body does not decode (key not found, type mismatch, data corrupted, value
\* not found) fails with decodingError, and a call fails with networkError
\* only when the transport failed.
C22_DecodingNeverNetwork ==
  \A s \in Services : \A method \in {"fetchConfiguration", "fetchConfigurationVersion"} :
    Returned(method, s) =>
      /\ DecodeFailed => event.thrown.case = "decodingError"
      /\ event.thrown.case = "networkError" => event.outcome.threw # ""

\* C29: on every service isLoading is true exactly while at least one call
\* of fetchConfiguration is in flight, however overlapping calls interleave.
C29_LoadingWhileInFlight ==
  \A s \in Services : isLoading[s] <=> inFlight[s]["fetchConfiguration"] > 0

\* the error a successful call of fetchConfiguration leaves on its service
ErrorAfterSuccess(s) == configError'[s]

\* C30: a call of fetchConfiguration that fails leaves a held document, the
\* cached data and the last-fetch date as they were; a call that succeeds
\* holds the fetched document, has cached it with the date of the call as
\* last-fetch date, and leaves no error; and fetchConfigurationIfNeeded
\* fetches exactly when there is no last-fetch date or more than 300 s have
\* passed since.
C30_FailureKeepsSuccessCaches ==
  [][\A s \in Services :
       /\ Returns("fetchConfiguration", s) =>
            IF event'.thrown # NoError
              THEN /\ currentConfig[s] # <<>> => currentConfig'[s] = currentConfig[s]
                   /\ userDefaults' = userDefaults
              ELSE /\ currentConfig'[s] = DecodeAppConfig(event'.outcome.data).value
                   /\ currentConfig'[s] # <<>>
                   /\ lastUpdateTime'[s] = date
                   /\ userDefaults'.config = <<EncodeAppConfig(currentConfig'[s][1])>>
                   /\ userDefaults'.lastFetch = date
                   /\ ErrorAfterSuccess(s) = NoError
       /\ fetchConfigurationIfNeededCalled(s) =>
            LET fresh == /\ userDefaults.lastFetch # NoDate
                         /\ date - userDefaults.lastFetch <= 300
            IN  fresh <=> inFlight' = inFlight]_vars

====
